---------------------------- MODULE Spec2Model ----------------------------
(***************************************************************************)
(* A model of pbcc's generated protobuf module (src/pymodule.in.cc): the   *)
(* wire primitives, the per-type codecs, and the per-message parse and     *)
(* serialize loops, for a small set of message types.                      *)
(*                                                                         *)
(* Representation.  A byte is an integer 0..255 and a byte string a        *)
(* sequence of bytes.  A uint64_t is a tuple of 8 bytes, least significant *)
(* first (TLC's integers are 32 bits wide, the program's are 64), and all  *)
(* 64-bit arithmetic is done on that tuple modulo 2^64.  A Python object   *)
(* is a record [k, v]: k names its type and v holds its value.             *)
(***************************************************************************)
EXTENDS Integers, Sequences, FiniteSets, TLC

(***************************************************************************)
(* 64-bit words                                                            *)
(***************************************************************************)

\* uint64_t: the 8 bytes of a word, least significant first
WordBytes == 8

W0 == <<0, 0, 0, 0, 0, 0, 0, 0>>

\* the word of a small natural number (n < 2^31)
WOf(n) == [j \in 1..WordBytes |->
             IF j <= 4 THEN (n \div (256 ^ (j - 1))) % 256 ELSE 0]

\* a word < 2^24 as a natural number
WFitsNat(w) == \A j \in 4..WordBytes : w[j] = 0

WToNat(w) == w[1] + 256 * w[2] + 65536 * w[3]

RECURSIVE WCmpFrom(_, _, _)
\* compare a and b as unsigned numbers from byte j down: -1, 0 or 1
WCmpFrom(a, b, j) ==
    IF j = 0 THEN 0
    ELSE IF a[j] < b[j] THEN -1
    ELSE IF a[j] > b[j] THEN 1
    ELSE WCmpFrom(a, b, j - 1)

WLt(a, b) == WCmpFrom(a, b, WordBytes) < 0
WLe(a, b) == WCmpFrom(a, b, WordBytes) <= 0

RECURSIVE WAddFrom(_, _, _, _)
\* the bytes j.. of a + b + carry, modulo 2^64
WAddFrom(a, b, j, carry) ==
    IF j > WordBytes THEN <<>>
    ELSE LET s == a[j] + b[j] + carry
         IN  <<s % 256>> \o WAddFrom(a, b, j + 1, s \div 256)

WAdd(a, b) == WAddFrom(a, b, 1, 0)

\* ~a
WNot(a) == [j \in 1..WordBytes |-> 255 - a[j]]

\* -a modulo 2^64 (two's complement)
WNeg(a) == WAdd(WNot(a), WOf(1))

\* a >> 7
WShr7(a) == [j \in 1..WordBytes |->
               (a[j] \div 128) + (IF j < WordBytes THEN (a[j + 1] % 128) * 2 ELSE 0)]

\* a >> 3
WShr3(a) == [j \in 1..WordBytes |->
               (a[j] \div 8) + (IF j < WordBytes THEN (a[j + 1] % 8) * 32 ELSE 0)]

\* a | (d << shift) for a 7-bit d, when the bits of a from shift up are 0
\* (bits shifted past bit 63 are lost)
WOrShl(a, d, shift) ==
    LET j  == (shift \div 8) + 1
        x  == d * (2 ^ (shift % 8))
    IN  [i \in 1..WordBytes |->
           IF i = j THEN a[i] + (x % 256)
           ELSE IF i = j + 1 THEN a[i] + (x \div 256)
           ELSE a[i]]

\* bit 63 of a: the sign of a as an int64_t
WSign64(a) == a[8] >= 128

\* bit 31 of a: the sign of a's low half as an int32_t
WSign32(a) == a[4] >= 128

\* the low 32 bits of a, zero-extended
WLow32(a) == [j \in 1..WordBytes |-> IF j <= 4 THEN a[j] ELSE 0]

\* static_cast<int64_t>(static_cast<int32_t>(a)): the low 32 bits, sign-extended
WSext32(a) == [j \in 1..WordBytes |->
                 IF j <= 4 THEN a[j] ELSE IF WSign32(a) THEN 255 ELSE 0]

(***************************************************************************)
(* Python objects                                                          *)
(***************************************************************************)

\* int: sign and magnitude (magnitude < 2^64; zero is not negative)
PyIntW(neg, mag) == [k |-> "int", v |-> [neg |-> neg /\ mag # W0, mag |-> mag]]

\* the int of a small integer n, |n| < 2^31
PyInt(n) == IF n < 0 THEN PyIntW(TRUE, WOf(0 - n)) ELSE PyIntW(FALSE, WOf(n))

PyNone == [k |-> "none", v |-> 0]
PyBool(b) == [k |-> "bool", v |-> b]
PyStr(s) == [k |-> "str", v |-> s]
PyBytes(s) == [k |-> "bytes", v |-> s]
\* float: a double.  bits is the bit pattern of the 32-bit float nearest to
\* it, and rest tells it from the other doubles nearest to that float: 0 for
\* the double that equals the 32-bit float
PyDouble(bits, rest) == [k |-> "float", v |-> bits, rest |-> rest]
PyFloat(bits) == PyDouble(bits, 0)
\* a member of enum e with integer value n
PyEnum(e, n) == [k |-> "enum", v |-> [e |-> e, n |-> n]]
PyList(items) == [k |-> "list", v |-> items]
\* dict: the entries [key, val] in insertion order, keys distinct
PyDict(entries) == [k |-> "dict", v |-> entries]
\* a message object: its type, its slots and its unknown_fields
PyMsg(t, slots, unknown) ==
    [k |-> "msg", v |-> [type |-> t, slots |-> slots, unknown |-> unknown]]


(***************************************************************************)
(* Wire primitives                                                         *)
(***************************************************************************)

\* a << 1 and a >> 1
WShl1(a) == [j \in 1..WordBytes |->
               ((a[j] * 2) % 256) + (IF j > 1 THEN a[j - 1] \div 128 ELSE 0)]

WShr1(a) == [j \in 1..WordBytes |->
               (a[j] \div 2) + (IF j < WordBytes THEN (a[j + 1] % 2) * 128 ELSE 0)]

is_in_u32_range(v) == \A j \in 5..WordBytes : v[j] = 0

\* a faulty is_in_s32_range: every int64_t passes
always_in_s32_range(v) == TRUE

\* v is an int64_t: in range iff it is the sign extension of its low 32 bits
is_in_s32_range(v) == v = WSext32(v)

\* StringReader: the reader is its data and an offset into it.
\* where the sum offset + size lies: "ok" (within the data), "out_of_range"
\* (the check throws), or "wrapped" (the sum overflowed 64 bits, so the check
\* passes although the bytes are not there)
ReaderFits(length, offset, size) ==
    LET s == WAdd(WOf(offset), size)
    IN  IF WLt(s, WOf(offset)) THEN "wrapped"
        ELSE IF WLt(WOf(length), s) THEN "out_of_range"
        ELSE "ok"

eof(data, offset) == offset >= Len(data)

\* StringReader::skip: the new offset, or the saturated one with the error
skip(data, offset, bytes) ==
    LET s == WAdd(WOf(offset), bytes)
    IN  IF WLt(WOf(Len(data)), s)
        THEN [st |-> "out_of_range", off |-> Len(data)]
        ELSE [st |-> "ok", off |-> WToNat(s)]

\* StringReader::pgetv/getv: the bytes read and the advanced offset; reading
\* past the data after a wrapped check is undefined behaviour
getv(data, offset, size) ==
    LET fit == ReaderFits(Len(data), offset, size)
    IN  IF fit = "ok"
        THEN [st |-> "ok", val |-> SubSeq(data, offset + 1, offset + WToNat(size)),
              off |-> offset + WToNat(size)]
        ELSE [st |-> IF fit = "wrapped" THEN "ub" ELSE fit, val |-> <<>>, off |-> offset]

\* StringReader::subx(offset, size): the bytes of the sub-reader
subx(data, offset, size) ==
    LET fit == ReaderFits(Len(data), offset, size)
    IN  IF fit = "ok"
        THEN [st |-> "ok", val |-> SubSeq(data, offset + 1, offset + WToNat(size))]
        ELSE [st |-> IF fit = "wrapped" THEN "ub" ELSE fit, val |-> <<>>]

\* StringReader::preadx(offset, size) for offset <= offset + size <= length
preadx(data, offset, size) == SubSeq(data, offset + 1, offset + size)

\* little-endian fixed-width reads: get_u32l/get_s32l/get_f32l, get_u64l/get_s64l
get_fixed(data, offset, n) ==
    IF offset + n > Len(data)
    THEN [st |-> "out_of_range", val |-> W0, off |-> offset]
    ELSE [st |-> "ok",
          val |-> [j \in 1..WordBytes |-> IF j <= n THEN data[offset + j] ELSE 0],
          off |-> offset + n]

\* little-endian fixed-width writes: put_u32l/put_s32l/put_f32l, put_u64l/put_s64l
put_fixed(v, n) == SubSeq(v, 1, n)

MaxVarintShift == 64

\* a faulty decode_varint: the number of 7-bit digits is not limited
RECURSIVE decode_varint_unlimited(_, _, _, _)
decode_varint_unlimited(data, offset, shift, ret) ==
    IF offset + 1 > Len(data)
    THEN [st |-> "out_of_range", val |-> ret, off |-> offset]
    ELSE LET v  == data[offset + 1]
             r2 == WOrShl(ret, v % 128, shift)
         IN  IF v < 128
             THEN [st |-> "ok", val |-> r2, off |-> offset + 1]
             ELSE decode_varint_unlimited(data, offset + 1, shift + 7, r2)

\* decode_varint from the reader's offset, the loop entered with shift and ret
RECURSIVE decode_varint_from(_, _, _, _)
decode_varint_from(data, offset, shift, ret) ==
    IF shift >= MaxVarintShift
    THEN [st |-> "varint_too_long", val |-> ret, off |-> offset]
    ELSE IF offset + 1 > Len(data)
    THEN [st |-> "out_of_range", val |-> ret, off |-> offset]
    ELSE LET v  == data[offset + 1]
             r2 == WOrShl(ret, v % 128, shift)
         IN  IF v < 128
             THEN [st |-> "ok", val |-> r2, off |-> offset + 1]
             ELSE decode_varint_from(data, offset + 1, shift + 7, r2)

decode_varint(data, offset) == decode_varint_from(data, offset, 0, W0)

\* a faulty encode_varint: no byte has the continuation bit
RECURSIVE encode_varint_plain(_)
encode_varint_plain(v) ==
    IF WLt(WOf(127), v)
    THEN <<v[1] % 128>> \o encode_varint_plain(WShr7(v))
    ELSE <<v[1]>>

\* encode_varint: the bytes written
RECURSIVE encode_varint(_)
encode_varint(v) ==
    IF WLt(WOf(127), v)
    THEN <<(v[1] % 128) + 128>> \o encode_varint(WShr7(v))
    ELSE <<v[1]>>

\* a faulty zigzag_decode: the sign bit is dropped
zigzag_decode_unsigned(v) == WShr1(v)

\* decode_varint_signed: (v >> 1) ^ ((v & 1) ? -1 : 0), an int64_t
zigzag_decode(v) == IF v[1] % 2 = 1 THEN WNot(WShr1(v)) ELSE WShr1(v)

decode_varint_signed(data, offset) ==
    LET r == decode_varint(data, offset)
    IN  [r EXCEPT !.val = zigzag_decode(r.val)]

\* static_cast<uint32_t>((n << 1) ^ (n >> 31)) for the int32_t n = (int32_t)v
encode_varint_signed32(v) ==
    encode_varint(WLow32(IF WSign32(v) THEN WNot(WShl1(v)) ELSE WShl1(v)))

\* (n << 1) ^ (n >> 63)
encode_varint_signed64(v) ==
    encode_varint(IF WSign64(v) THEN WNot(WShl1(v)) ELSE WShl1(v))

\* enum class WireType
WT_VARINT == 0
WT_INT64 == 1
WT_LENGTH == 2
WT_GROUP_START == 3
WT_GROUP_END == 4
WT_INT32 == 5

wire_type_for_tag(tag) == tag[1] % 8
field_num_for_tag(tag) == WShr3(tag)
\* (field_num << 3) | type, for a small field number
encode_tag(field_num, type) == WOf(field_num * 8 + type)

(***************************************************************************)
(* The schema: what the compiler substitutes into the template             *)
(***************************************************************************)

\* enum ParseFlag
RETAIN_UNKNOWN_FIELDS == 1
IGNORE_INCORRECT_TYPES == 2

HasFlag(flags, f) == (flags \div f) % 2 = 1

\* the members of each enum: py_enum_value_for_int_value's keys
EnumMembers == [MyEnum |-> {0, 3}]

Fld(num, dt, card) ==
    [num |-> num, dt |-> dt, card |-> card, enum |-> "", sub |-> "",
     kt |-> "", vt |-> ""]
EnumFld(num, card, e) == [Fld(num, "ENUM", card) EXCEPT !.enum = e]
MsgFld(num, card, t) == [Fld(num, "MESSAGE", card) EXCEPT !.sub = t]
MapFld(num, kt, vt) == [Fld(num, "MAP", "MAP") EXCEPT !.kt = kt, !.vt = vt]

Group(name, fields) == [name |-> name, oneof |-> FALSE, fields |-> fields]
Oneof(name, fields) == [name |-> name, oneof |-> TRUE, fields |-> fields]

\* The message types.  LongMessage is the README's example; the others add
\* the field shapes it lacks (singular scalar, sub-message, optional scalars,
\* fixed-width and string repeated fields, the 32-bit integer types, enums
\* in repeated and map fields, and oneof groups of optional fields and of
\* several integer types).
Schema ==
    [LongMessage |-> <<
        Oneof("f_oneof", <<EnumFld(1, "SINGULAR", "MyEnum"),
                           Fld(2, "STRING", "SINGULAR")>>),
        Group("f_uint64", <<Fld(3, "UINT64", "REPEATED")>>),
        Group("f_maybe_bytes", <<Fld(4, "BYTES", "OPTIONAL")>>),
        Group("f_map_str_float", <<MapFld(5, "STRING", "FLOAT")>>) >>,
     Inner |-> <<
        Group("f_x", <<Fld(1, "INT32", "SINGULAR")>>) >>,
     Outer |-> <<
        Group("f_int32", <<Fld(1, "INT32", "SINGULAR")>>),
        Group("f_sub", <<MsgFld(2, "SINGULAR", "Inner")>>),
        Group("f_fixed32", <<Fld(3, "FIXED32", "REPEATED")>>),
        Group("f_strings", <<Fld(4, "STRING", "REPEATED")>>) >>,
     Optionals |-> <<
        Group("f_maybe_int32", <<Fld(1, "INT32", "OPTIONAL")>>),
        Group("f_maybe_bool", <<Fld(2, "BOOL", "OPTIONAL")>>),
        Group("f_maybe_enum", <<EnumFld(3, "OPTIONAL", "MyEnum")>>),
        Group("f_maybe_string", <<Fld(4, "STRING", "OPTIONAL")>>),
        Group("f_maybe_sub", <<MsgFld(5, "OPTIONAL", "Inner")>>) >>,
     Ints32 |-> <<
        Group("f_int32", <<Fld(1, "INT32", "SINGULAR")>>),
        Group("f_uint32", <<Fld(2, "UINT32", "SINGULAR")>>),
        Group("f_sint32", <<Fld(3, "SINT32", "SINGULAR")>>),
        Group("f_fixed32", <<Fld(4, "FIXED32", "SINGULAR")>>),
        Group("f_sfixed32", <<Fld(5, "SFIXED32", "SINGULAR")>>),
        Group("f_uint32s", <<Fld(6, "UINT32", "REPEATED")>>),
        Group("f_sint32s", <<Fld(7, "SINT32", "REPEATED")>>) >>,
     Enums |-> <<
        Group("f_enum", <<EnumFld(1, "SINGULAR", "MyEnum")>>),
        Group("f_enums", <<EnumFld(2, "REPEATED", "MyEnum")>>),
        Group("f_map_int_enum",
              <<[MapFld(3, "INT32", "ENUM") EXCEPT !.enum = "MyEnum"]>>) >>,
     Oneofs |-> <<
        Oneof("f_opt", <<Fld(1, "INT32", "OPTIONAL"), Fld(2, "STRING", "OPTIONAL")>>),
        Oneof("f_num", <<Fld(3, "UINT32", "SINGULAR"), Fld(4, "INT64", "SINGULAR"),
                         Fld(5, "BOOL", "SINGULAR"), Fld(6, "BYTES", "SINGULAR")>>) >>]

MsgTypes == DOMAIN Schema

GroupNames(t) == {Schema[t][i].name : i \in 1..Len(Schema[t])}

(***************************************************************************)
(* DataType predicates                                                     *)
(***************************************************************************)

is_varint_data_type(t) ==
    t \in {"INT32", "UINT32", "SINT32", "INT64", "UINT64", "SINT64", "BOOL", "ENUM"}
is_int32_data_type(t) == t \in {"FLOAT", "FIXED32", "SFIXED32"}
is_int64_data_type(t) == t \in {"DOUBLE", "FIXED64", "SFIXED64"}
is_string_data_type(t) == t \in {"STRING", "BYTES"}
is_message_data_type(t) == t \in {"MAP", "MESSAGE"}
is_uint_data_type(t) ==
    t \in {"UINT32", "UINT64", "BOOL", "ENUM", "FIXED32", "FIXED64"}
is_sint_data_type(t) ==
    t \in {"INT32", "SINT32", "INT64", "SINT64", "SFIXED32", "SFIXED64"}
is_float_data_type(t) == t \in {"FLOAT", "DOUBLE"}

can_use_packed_repeated_format(t) ==
    ~is_string_data_type(t) /\ t # "MAP" /\ t # "MESSAGE"

wire_type_for_data_type(t) ==
    IF is_int32_data_type(t) THEN WT_INT32
    ELSE IF is_int64_data_type(t) THEN WT_INT64
    ELSE IF is_varint_data_type(t) THEN WT_VARINT
    ELSE WT_LENGTH

(***************************************************************************)
(* The Python C API, as far as the codecs use it                           *)
(***************************************************************************)

\* PyLong_Check: int and its subclasses bool and IntEnum
PyLong_Check(obj) == obj.k \in {"int", "bool", "enum"}

\* the int64_t of a small integer
SWord(n) == IF n < 0 THEN WNeg(WOf(0 - n)) ELSE WOf(n)

\* the sign and magnitude of an int-like object
IntSignMag(obj) ==
    IF obj.k = "bool" THEN [neg |-> FALSE, mag |-> WOf(IF obj.v THEN 1 ELSE 0)]
    ELSE IF obj.k = "enum"
    THEN [neg |-> obj.v.n < 0, mag |-> WOf(IF obj.v.n < 0 THEN 0 - obj.v.n ELSE obj.v.n)]
    ELSE obj.v

\* 2^63
WMinS64 == <<0, 0, 0, 0, 0, 0, 0, 128>>

\* PyLong_AsLongLong: the int64_t, or OverflowError
PyLong_AsLongLong(obj) ==
    LET sm == IntSignMag(obj)
    IN  IF sm.neg
        THEN IF WLe(sm.mag, WMinS64)
             THEN [st |-> "ok", val |-> WNeg(sm.mag)]
             ELSE [st |-> "python_error", val |-> W0]
        ELSE IF WLt(sm.mag, WMinS64)
             THEN [st |-> "ok", val |-> sm.mag]
             ELSE [st |-> "python_error", val |-> W0]

\* PyLong_AsUnsignedLongLong: the uint64_t, or OverflowError
PyLong_AsUnsignedLongLong(obj) ==
    LET sm == IntSignMag(obj)
    IN  IF sm.neg THEN [st |-> "python_error", val |-> W0]
        ELSE [st |-> "ok", val |-> sm.mag]

\* PyLong_FromLong/PyLong_FromLongLong of an int64_t (long is 64 bits wide)
PyLong_FromLongLong(w) ==
    IF WSign64(w) THEN PyIntW(TRUE, WNeg(w)) ELSE PyIntW(FALSE, w)

\* PyLong_FromUnsignedLong/PyLong_FromUnsignedLongLong of a uint64_t
PyLong_FromUnsignedLongLong(w) == PyIntW(FALSE, w)

\* PyUnicode_FromStringAndSize decodes UTF-8; the model's strings are ASCII
\* and a byte above 0x7F stands for an invalid sequence
is_valid_utf8(bytes) == \A i \in 1..Len(bytes) : bytes[i] < 128

\* PyEnumRef::has_py_member
has_py_member(enum, obj) ==
    obj.k = "enum" /\ obj.v.e = enum /\ obj.v.n \in EnumMembers[enum]

\* a faulty py_member_for_value: the integer itself, whatever it is
int_for_value(enum, w) == [st |-> "ok", val |-> PyLong_FromLongLong(w)]

\* PyEnumRef::py_member_for_value: the member whose value is the int64_t w
py_member_for_value(enum, w) ==
    LET ns == {n \in EnumMembers[enum] : SWord(n) = w}
    IN  IF ns = {} THEN [st |-> "enum_member_does_not_exist", val |-> PyNone]
        ELSE [st |-> "ok", val |-> PyEnum(enum, CHOOSE n \in ns : TRUE)]

\* PyEnumRef::value_for_py_member
value_for_py_member(enum, obj) ==
    IF has_py_member(enum, obj)
    THEN [st |-> "ok", val |-> SWord(obj.v.n)]
    ELSE [st |-> "not_an_enum_member", val |-> W0]

\* a float's bit pattern is +0.0 or -0.0
FloatIsZero(bits) == bits = W0 \/ bits = <<0, 0, 0, 128, 0, 0, 0, 0>>

(***************************************************************************)
(* Field codecs: TypeCodec<data_type>                                      *)
(***************************************************************************)

RECURSIVE from_proto_data(_, _, _)
RECURSIVE as_proto_data(_, _, _)

\* a local variable: Body with v bound to the value computed once
With(v, Body(_)) == Body(v)

Ok(val, off) == [st |-> "ok", val |-> val, off |-> off]
Err(st, off) == [st |-> st, val |-> PyNone, off |-> off]

\* TypeCodec<data_type>::value_matches_type
value_matches_type(dt, obj, enum, sub, is_optional) ==
    \/ is_optional /\ obj.k = "none"
    \/ CASE dt = "BOOL" -> obj.k = "bool"
         [] is_float_data_type(dt) -> obj.k = "float" \/ PyLong_Check(obj)
         [] dt = "BYTES" -> obj.k = "bytes"
         [] dt = "STRING" -> obj.k = "str"
         [] dt = "ENUM" -> has_py_member(enum, obj)
         [] dt = "MESSAGE" -> obj.k = "msg" /\ obj.v.type = sub
         [] OTHER -> PyLong_Check(obj)

\* TypeCodec<data_type>::construct_default
construct_default(dt, enum, sub) ==
    CASE dt = "BOOL" -> PyBool(FALSE)
      [] is_float_data_type(dt) -> PyFloat(W0)
      [] dt = "BYTES" -> PyBytes(<<>>)
      [] dt = "STRING" -> PyStr(<<>>)
      [] dt = "ENUM" -> py_member_for_value(enum, W0).val
      [] dt = "MESSAGE" -> from_proto_data(sub, <<>>, 0).val
      [] OTHER -> PyInt(0)

\* the value of a varint codec from the decoded uint64_t
VarintValue(dt, enum, w) ==
    CASE dt = "INT32" -> [st |-> "ok", val |-> PyLong_FromLongLong(WSext32(w))]
      [] dt = "UINT32" -> [st |-> "ok", val |-> PyLong_FromUnsignedLongLong(w)]
      [] dt \in {"SINT32", "SINT64"} ->
           [st |-> "ok", val |-> PyLong_FromLongLong(zigzag_decode(w))]
      [] dt = "INT64" -> [st |-> "ok", val |-> PyLong_FromLongLong(w)]
      [] dt = "UINT64" -> [st |-> "ok", val |-> PyLong_FromUnsignedLongLong(w)]
      [] dt = "BOOL" -> [st |-> "ok", val |-> PyBool(w # W0)]
      [] dt = "ENUM" -> py_member_for_value(enum, w)

\* the value of a fixed-width codec from the bytes read, zero-extended
FixedValue(dt, w) ==
    CASE dt \in {"FIXED32", "FIXED64"} -> PyLong_FromUnsignedLongLong(w)
      [] dt = "SFIXED32" -> PyLong_FromLongLong(WSext32(w))
      [] dt = "SFIXED64" -> PyLong_FromLongLong(w)
      [] dt = "FLOAT" -> PyFloat(w)

\* the length-delimited codecs, the bytes b read after the length
parse_length_delimited(dt, b, sub, flags) ==
    IF dt = "MESSAGE"
    THEN IF b.st # "ok" THEN Err(b.st, b.off)
         ELSE With(from_proto_data(sub, b.val, flags), LAMBDA msg :
              IF msg.st # "ok" THEN Err(msg.st, b.off) ELSE Ok(msg.val, b.off))
    \* a wrapped size is a negative Py_ssize_t: SystemError
    ELSE IF b.st = "ub" THEN Err("python_error", b.off)
    ELSE IF b.st # "ok" THEN Err(b.st, b.off)
    ELSE IF dt = "BYTES" THEN Ok(PyBytes(b.val), b.off)
    ELSE IF is_valid_utf8(b.val) THEN Ok(PyStr(b.val), b.off)
    ELSE Err("python_error", b.off)

\* the codecs that start with a varint: the value itself, or the length
parse_after_varint(dt, data, r, enum, sub, flags) ==
    IF r.st # "ok" THEN Err(r.st, r.off)
    ELSE IF is_varint_data_type(dt)
    THEN With(VarintValue(dt, enum, r.val), LAMBDA x :
         IF x.st # "ok" THEN Err(x.st, r.off) ELSE Ok(x.val, r.off))
    ELSE parse_length_delimited(dt, getv(data, r.off, r.val), sub, flags)

\* TypeCodec<data_type>::parse at offset off of data: the value and the
\* reader's new offset, or the error
parse(dt, data, off, enum, sub, flags) ==
    IF is_int32_data_type(dt) \/ is_int64_data_type(dt)
    THEN With(get_fixed(data, off, IF is_int64_data_type(dt) THEN 8 ELSE 4), LAMBDA r :
         IF r.st # "ok" THEN Err(r.st, r.off) ELSE Ok(FixedValue(dt, r.val), r.off))
    ELSE parse_after_varint(dt, data, decode_varint(data, off), enum, sub, flags)

SOk(bytes) == [st |-> "ok", bytes |-> bytes]
SErr(st) == [st |-> st, bytes |-> <<>>]

\* the checked conversion of a signed or unsigned integer field's value
int_value(dt, obj) ==
    IF is_sint_data_type(dt) THEN PyLong_AsLongLong(obj)
    ELSE PyLong_AsUnsignedLongLong(obj)

\* the bytes of an integer field whose value converted to v
serialize_int(dt, v) ==
    IF v.st # "ok" THEN SErr(v.st)
    ELSE IF dt \in {"INT32", "SINT32", "SFIXED32"} /\ ~is_in_s32_range(v.val)
    THEN SErr("range_error")
    ELSE IF dt \in {"UINT32", "FIXED32"} /\ ~is_in_u32_range(v.val)
    THEN SErr("range_error")
    ELSE SOk(CASE dt \in {"INT32", "UINT32", "INT64", "UINT64"} -> encode_varint(v.val)
               [] dt = "SINT32" -> encode_varint_signed32(v.val)
               [] dt = "SINT64" -> encode_varint_signed64(v.val)
               [] dt \in {"FIXED32", "SFIXED32"} -> put_fixed(v.val, 4)
               [] dt \in {"FIXED64", "SFIXED64"} -> put_fixed(v.val, 8))

\* a length prefix and the bytes, or the error of producing them
length_prefixed(w) ==
    IF w.st # "ok" THEN w
    ELSE SOk(encode_varint(WOf(Len(w.bytes))) \o w.bytes)

\* TypeCodec<data_type>::serialize_without_tag: the bytes written, or the
\* error.  pol is the iteration order of unknown_fields (sub-messages).
serialize_without_tag(dt, obj, enum, sub, pol) ==
    CASE dt = "BOOL" ->
           IF obj.k = "bool" THEN SOk(<<IF obj.v THEN 1 ELSE 0>>)
           ELSE SErr("invalid_argument")
      \* float v = PyFloat_AsDouble(obj): the nearest 32-bit float is written
      \* (no int in a float slot)
      [] dt = "FLOAT" /\ obj.k = "float" -> SOk(put_fixed(obj.v, 4))
      [] dt \in {"BYTES", "STRING"} ->
           IF obj.k = (IF dt = "BYTES" THEN "bytes" ELSE "str")
           THEN length_prefixed(SOk(obj.v))
           ELSE SErr("python_error")
      [] dt = "ENUM" ->
           With(value_for_py_member(enum, obj), LAMBDA v :
           IF v.st # "ok" THEN SErr(v.st) ELSE SOk(encode_varint(v.val)))
      [] dt = "MESSAGE" -> length_prefixed(as_proto_data(sub, obj, pol))
      [] OTHER -> serialize_int(dt, int_value(dt, obj))

\* a faulty obj_has_default_value: no value is the default
never_default(dt, obj, enum) == FALSE

\* obj_has_default_value<data_type>
obj_has_default_value(dt, obj, enum) ==
    CASE dt = "BOOL" -> obj.k = "bool" /\ ~obj.v
      [] dt = "ENUM" ->
           LET v == value_for_py_member(enum, obj) IN v.st = "ok" /\ v.val = W0
      [] dt = "STRING" -> obj.k = "str" /\ Len(obj.v) = 0
      [] dt = "BYTES" -> obj.k = "bytes" /\ Len(obj.v) = 0
      [] is_message_data_type(dt) -> FALSE
      [] is_float_data_type(dt) ->
           \/ obj.k = "float" /\ FloatIsZero(obj.v) /\ obj.rest = 0
           \/ PyLong_Check(obj) /\ IntSignMag(obj).mag = W0
      [] OTHER -> PyLong_Check(obj) /\ IntSignMag(obj).mag = W0

\* the tag of field_num and the body, or the body's error
tagged(field_num, type, body) ==
    IF body.st # "ok" THEN body
    ELSE SOk(encode_varint(encode_tag(field_num, type)) \o body.bytes)

\* serialize_with_tag<DataType::MESSAGE>, the sub-message serialized as sub_w
serialize_message_with_tag(field_num, default_behavior, sub_w) ==
    IF sub_w.st # "ok" THEN sub_w
    ELSE IF Len(sub_w.bytes) = 0 /\ default_behavior = "REQUIRED" THEN SOk(<<>>)
    ELSE tagged(field_num, WT_LENGTH, length_prefixed(sub_w))

\* a faulty should_write: OPTIONAL is treated as REQUIRED
write_unless_default(dt, default_behavior, obj, enum) ==
    default_behavior = "ALWAYS_WRITE" \/ ~obj_has_default_value(dt, obj, enum)

\* should_write of serialize_with_tag: no bytes for an OPTIONAL field that is
\* None, nor for a REQUIRED field that has its default value
should_write(dt, default_behavior, obj, enum) ==
    CASE default_behavior = "OPTIONAL" -> obj.k # "none"
      [] default_behavior = "REQUIRED" -> ~obj_has_default_value(dt, obj, enum)
      [] default_behavior = "ALWAYS_WRITE" -> TRUE

\* serialize_with_tag<data_type>: the field with its tag, unless elided
serialize_with_tag(dt, field_num, default_behavior, obj, enum, sub, pol) ==
    IF dt = "MESSAGE"
    THEN IF default_behavior = "OPTIONAL" /\ obj.k = "none" THEN SOk(<<>>)
         ELSE serialize_message_with_tag(field_num, default_behavior,
                                         as_proto_data(sub, obj, pol))
    ELSE IF should_write(dt, default_behavior, obj, enum)
    THEN tagged(field_num, wire_type_for_data_type(dt),
                serialize_without_tag(dt, obj, enum, sub, pol))
    ELSE SOk(<<>>)

(***************************************************************************)
(* Repeated fields, maps, oneofs                                           *)
(***************************************************************************)

\* a faulty PyList_Append: the item is put first
PyList_Prepend(list, v) ==
    IF list.k = "list" THEN [st |-> "ok", val |-> PyList(<<v>> \o list.v)]
    ELSE [st |-> "python_error", val |-> list]

\* PyList_Append: a slot that does not hold a list raises SystemError
PyList_Append(list, v) ==
    IF list.k = "list" THEN [st |-> "ok", val |-> PyList(Append(list.v, v))]
    ELSE [st |-> "python_error", val |-> list]

\* the loop of parse_packed_repeated over the sub-reader: the list as the
\* loop leaves it (appends made before an error stay in the list)
RECURSIVE parse_packed_items(_, _, _, _, _)
parse_packed_items(f, list, sub_data, sub_off, flags) ==
    IF eof(sub_data, sub_off) THEN [st |-> "ok", val |-> list]
    ELSE With(parse(f.dt, sub_data, sub_off, f.enum, f.sub, flags), LAMBDA v :
         IF v.st # "ok" THEN [st |-> v.st, val |-> list]
         ELSE With(PyList_Append(list, v.val), LAMBDA a :
              IF a.st # "ok" THEN a
              ELSE parse_packed_items(f, a.val, sub_data, v.off, flags)))

\* the length-delimited body at off: the sub-reader's bytes (subx) and the
\* reader's offset after skipping them
sub_reader(data, size) ==
    IF size.st # "ok" THEN [st |-> size.st, val |-> <<>>, off |-> size.off]
    ELSE With(subx(data, size.off, size.val), LAMBDA sub_r :
         IF sub_r.st # "ok" THEN [st |-> sub_r.st, val |-> <<>>, off |-> size.off]
         ELSE With(skip(data, size.off, size.val), LAMBDA sk :
              [st |-> sk.st, val |-> sub_r.val, off |-> sk.off]))

\* parse_packed_repeated: the list, the reader's offset, and the status
parse_packed_repeated(f, list, data, off, flags) ==
    With(sub_reader(data, decode_varint(data, off)), LAMBDA sub_r :
    IF sub_r.st # "ok" THEN [st |-> sub_r.st, val |-> list, off |-> sub_r.off]
    ELSE With(parse_packed_items(f, list, sub_r.val, 0, flags), LAMBDA items :
         [st |-> items.st, val |-> items.val, off |-> sub_r.off]))

\* parse_unpacked_repeated
parse_unpacked_repeated(f, list, data, off, flags) ==
    With(parse(f.dt, data, off, f.enum, f.sub, flags), LAMBDA v :
    IF v.st # "ok" THEN [st |-> v.st, val |-> list, off |-> v.off]
    ELSE With(PyList_Append(list, v.val), LAMBDA a :
         [st |-> a.st, val |-> a.val, off |-> v.off]))

\* one after the other: the bytes of both, or the first error
then_bytes(one, rest) ==
    IF one.st # "ok" THEN one
    ELSE IF rest.st # "ok" THEN rest
    ELSE SOk(one.bytes \o rest.bytes)

\* the item loops of serialize_repeated_with_tag
RECURSIVE serialize_items(_, _, _, _, _)
serialize_items(f, items, i, with_tag, pol) ==
    IF i > Len(items) THEN SOk(<<>>)
    ELSE IF ~value_matches_type(f.dt, items[i], f.enum, f.sub, FALSE)
    THEN SErr("incorrect_data_type")
    ELSE then_bytes(IF with_tag
                    THEN serialize_with_tag(f.dt, f.num, "ALWAYS_WRITE", items[i],
                                            f.enum, f.sub, pol)
                    ELSE serialize_without_tag(f.dt, items[i], f.enum, f.sub, pol),
                    serialize_items(f, items, i + 1, with_tag, pol))

\* serialize_repeated_with_tag, the three overloads: fixed-width and varint
\* types are packed (nothing for an empty list), string, bytes and message
\* types are written one tagged item at a time
serialize_repeated_with_tag(f, list, pol) ==
    IF list.k # "list" THEN SErr("not_a_list")
    ELSE IF can_use_packed_repeated_format(f.dt)
    THEN IF Len(list.v) = 0 THEN SOk(<<>>)
         ELSE tagged(f.num, WT_LENGTH,
                     length_prefixed(serialize_items(f, list.v, 1, FALSE, pol)))
    ELSE serialize_items(f, list.v, 1, TRUE, pol)

\* Python's == on the model's objects (PyObject_RichCompare with Py_EQ):
\* int, bool and IntEnum compare by integer value, a float equals an integer
\* only at zero (the model's floats are 0.0 or non-integral), lists and
\* messages compare slot by slot, dicts entry by entry whatever the order;
\* unknown_fields take no part in a message's equality
RECURSIVE PyEq(_, _)
PyEq(a, b) ==
    IF PyLong_Check(a) /\ PyLong_Check(b) THEN IntSignMag(a) = IntSignMag(b)
    ELSE IF PyLong_Check(a) /\ b.k = "float"
    THEN IntSignMag(a).mag = W0 /\ FloatIsZero(b.v) /\ b.rest = 0
    ELSE IF a.k = "float" /\ PyLong_Check(b)
    THEN IntSignMag(b).mag = W0 /\ FloatIsZero(a.v) /\ a.rest = 0
    ELSE IF a.k # b.k THEN FALSE
    ELSE CASE a.k = "float" ->
                /\ a.rest = b.rest
                /\ a.v = b.v \/ (FloatIsZero(a.v) /\ FloatIsZero(b.v) /\ a.rest = 0)
           [] a.k = "list" ->
                /\ Len(a.v) = Len(b.v)
                /\ \A i \in 1..Len(a.v) : PyEq(a.v[i], b.v[i])
           [] a.k = "dict" ->
                /\ Len(a.v) = Len(b.v)
                /\ \A i \in 1..Len(a.v) : \E j \in 1..Len(b.v) :
                       PyEq(a.v[i].key, b.v[j].key) /\ PyEq(a.v[i].val, b.v[j].val)
           [] a.k = "msg" ->
                /\ a.v.type = b.v.type
                /\ \A g \in DOMAIN a.v.slots : PyEq(a.v.slots[g], b.v.slots[g])
           [] OTHER -> a.v = b.v

\* a faulty PyDict_SetItem: an equal key keeps the value it has
PyDict_SetDefault(dict, key, val) ==
    IF dict.k # "dict" THEN [st |-> "python_error", val |-> dict]
    ELSE IF \E i \in 1..Len(dict.v) : PyEq(dict.v[i].key, key)
    THEN [st |-> "ok", val |-> dict]
    ELSE [st |-> "ok", val |-> PyDict(Append(dict.v, [key |-> key, val |-> val]))]

\* PyDict_SetItem: replaces the value of an equal key, or adds the entry last
PyDict_SetItem(dict, key, val) ==
    IF dict.k # "dict" THEN [st |-> "python_error", val |-> dict]
    ELSE IF \E i \in 1..Len(dict.v) : PyEq(dict.v[i].key, key)
    THEN [st |-> "ok",
          val |-> PyDict([i \in 1..Len(dict.v) |->
                             IF PyEq(dict.v[i].key, key)
                             THEN [key |-> dict.v[i].key, val |-> val]
                             ELSE dict.v[i]])]
    ELSE [st |-> "ok", val |-> PyDict(Append(dict.v, [key |-> key, val |-> val]))]

NoObj == [set |-> FALSE, val |-> PyNone]
SomeObj(v) == [set |-> TRUE, val |-> v]

\* the loop of parse_map over the entry's sub-reader: the key and the value
\* read.  A tag whose field number is neither 1 nor 2 is consumed and its
\* body is left in the reader, to be read as the next tag.
RECURSIVE parse_map_entry(_, _, _, _, _, _)
parse_map_entry(f, sub_data, sub_off, key, value, flags) ==
    IF eof(sub_data, sub_off) THEN [st |-> "ok", key |-> key, value |-> value]
    ELSE With(decode_varint(sub_data, sub_off), LAMBDA tag :
         IF tag.st # "ok" THEN [st |-> tag.st, key |-> key, value |-> value]
         ELSE IF field_num_for_tag(tag.val) = WOf(1)
         THEN IF wire_type_for_tag(tag.val) # wire_type_for_data_type(f.kt)
              THEN [st |-> "incorrect_type", key |-> key, value |-> value]
              ELSE With(parse(f.kt, sub_data, tag.off, "", "", flags), LAMBDA k :
                   IF k.st # "ok" THEN [st |-> k.st, key |-> key, value |-> value]
                   ELSE parse_map_entry(f, sub_data, k.off, SomeObj(k.val), value, flags))
         ELSE IF field_num_for_tag(tag.val) = WOf(2)
         THEN IF wire_type_for_tag(tag.val) # wire_type_for_data_type(f.vt)
              THEN [st |-> "incorrect_type", key |-> key, value |-> value]
              ELSE With(parse(f.vt, sub_data, tag.off, f.enum, f.sub, flags), LAMBDA v :
                   IF v.st # "ok" THEN [st |-> v.st, key |-> key, value |-> value]
                   ELSE parse_map_entry(f, sub_data, v.off, key, SomeObj(v.val), flags))
         ELSE parse_map_entry(f, sub_data, tag.off, key, value, flags))

\* the end of parse_map: the entry e read is stored under its key, a key or
\* value the entry did not carry being the type's default
store_map_entry(f, dict, off, e) ==
    IF e.st # "ok" THEN [st |-> e.st, val |-> dict, off |-> off]
    ELSE With(PyDict_SetItem(dict,
                  IF e.key.set THEN e.key.val ELSE construct_default(f.kt, "", ""),
                  IF e.value.set THEN e.value.val
                  ELSE construct_default(f.vt, f.enum, f.sub)),
              LAMBDA set : [st |-> set.st, val |-> set.val, off |-> off])

\* parse_map: the dict, the reader's offset, and the status
parse_map(f, dict, data, off, flags) ==
    With(sub_reader(data, decode_varint(data, off)), LAMBDA sub_r :
    IF sub_r.st # "ok" THEN [st |-> sub_r.st, val |-> dict, off |-> sub_r.off]
    ELSE store_map_entry(f, dict, sub_r.off,
                         parse_map_entry(f, sub_r.val, 0, NoObj, NoObj, flags)))

\* serialize_map_with_tag, entry by entry in the dict's order
RECURSIVE serialize_map_entries(_, _, _, _)
serialize_map_entries(f, entries, i, pol) ==
    IF i > Len(entries) THEN SOk(<<>>)
    ELSE IF ~value_matches_type(f.kt, entries[i].key, "", "", FALSE)
    THEN SErr("incorrect_data_type")
    ELSE IF ~value_matches_type(f.vt, entries[i].val, f.enum, f.sub, FALSE)
    THEN SErr("incorrect_data_type")
    ELSE then_bytes(
             tagged(f.num, WT_LENGTH, length_prefixed(then_bytes(
                 serialize_with_tag(f.kt, 1, "ALWAYS_WRITE", entries[i].key, "", "", pol),
                 serialize_with_tag(f.vt, 2, "ALWAYS_WRITE", entries[i].val,
                                    f.enum, f.sub, pol)))),
             serialize_map_entries(f, entries, i + 1, pol))

serialize_map_with_tag(f, dict, pol) ==
    IF dict.k # "dict" THEN SErr("not_a_dict")
    ELSE serialize_map_entries(f, dict.v, 1, pol)

\* a faulty serialize_oneof_with_tag: the candidates are probed from the last
\* one to the first
RECURSIVE serialize_oneof_backwards(_, _, _, _)
serialize_oneof_backwards(fields, i, obj, pol) ==
    LET k == Len(fields) + 1 - i
    IN  IF i > Len(fields) THEN SErr("oneof_no_match")
        ELSE IF value_matches_type(fields[k].dt, obj, fields[k].enum, fields[k].sub, FALSE)
        THEN serialize_with_tag(fields[k].dt, fields[k].num,
                                IF fields[k].card = "OPTIONAL" THEN "OPTIONAL"
                                ELSE "REQUIRED",
                                obj, fields[k].enum, fields[k].sub, pol)
        ELSE serialize_oneof_backwards(fields, i + 1, obj, pol)

\* serialize_oneof_with_tag: the first candidate, in declaration order, whose
\* type the value matches is serialized; none matching is an error
RECURSIVE serialize_oneof_with_tag(_, _, _, _)
serialize_oneof_with_tag(fields, i, obj, pol) ==
    IF i > Len(fields) THEN SErr("oneof_no_match")
    ELSE IF value_matches_type(fields[i].dt, obj, fields[i].enum, fields[i].sub, FALSE)
    THEN serialize_with_tag(fields[i].dt, fields[i].num,
                            IF fields[i].card = "OPTIONAL" THEN "OPTIONAL" ELSE "REQUIRED",
                            obj, fields[i].enum, fields[i].sub, pol)
    ELSE serialize_oneof_with_tag(fields, i + 1, obj, pol)

\* skip_field: the reader's offset after the body of a field of this wire type
skip_field(data, off, type) ==
    CASE type = WT_VARINT ->
           With(decode_varint(data, off), LAMBDA r : [st |-> r.st, off |-> r.off])
      [] type = WT_INT64 -> skip(data, off, WOf(8))
      [] type = WT_LENGTH ->
           With(decode_varint(data, off), LAMBDA r :
           IF r.st # "ok" THEN [st |-> r.st, off |-> r.off]
           ELSE skip(data, r.off, r.val))
      [] type = WT_INT32 -> skip(data, off, WOf(4))
      [] OTHER -> [st |-> "unknown_field_type", off |-> off]

(***************************************************************************)
(* Messages                                                                *)
(***************************************************************************)

\* the default-value constructor of a field group, as the README's __init__
\* signature shows it for LongMessage: the first candidate's default for a
\* oneof (MyEnum.VALUE0), None for an optional field, an empty dict for a map
\* field; for a repeated field the empty list that its annotation list[int]
\* and PyList_Append in the parser require (the README prints 0); the type's
\* default, TypeCodec's construct_default, otherwise
GroupDefault(g) ==
    LET f == g.fields[1]
    IN  IF g.oneof THEN construct_default(f.dt, f.enum, f.sub)
        ELSE CASE f.card = "OPTIONAL" -> PyNone
               [] f.card = "REPEATED" -> PyList(<<>>)
               [] f.card = "MAP" -> PyDict(<<>>)
               [] OTHER -> construct_default(f.dt, f.enum, f.sub)

\* new_with_default_values: every slot at its default, no unknown fields
new_with_default_values(t) ==
    PyMsg(t, [n \in GroupNames(t) |->
                 GroupDefault(CHOOSE g \in {Schema[t][i] : i \in 1..Len(Schema[t])} :
                                  g.name = n)],
          <<>>)

\* py_init: the default values, then the keyword arguments given
py_init(t, kwargs) ==
    With(new_with_default_values(t), LAMBDA d :
    [d EXCEPT !.v.slots = [n \in GroupNames(t) |->
                              IF n \in DOMAIN kwargs THEN kwargs[n] ELSE @[n]]])

\* a faulty py_proto_copy: the keyword arguments are not looked at
copy_without_overrides(py_self, kwargs) ==
    PyMsg(py_self.v.type, py_self.v.slots, <<>>)

\* py_proto_copy: a new object with a new MessageData (no unknown fields),
\* each slot the keyword argument given for it, or else self's value
py_proto_copy(py_self, kwargs) ==
    PyMsg(py_self.v.type,
          [n \in GroupNames(py_self.v.type) |->
              IF n \in DOMAIN kwargs THEN kwargs[n] ELSE py_self.v.slots[n]],
          <<>>)

\* the (group, field) the parse loop's switch selects for a field number
FieldsForNumber(t, field_num) ==
    {gf \in UNION {{<<Schema[t][i], Schema[t][i].fields[j]>> :
                        j \in 1..Len(Schema[t][i].fields)} : i \in 1..Len(Schema[t])} :
        WOf(gf[2].num) = field_num}

PRes(st, msg, off) == [st |-> st, msg |-> msg, off |-> off]

\* parse_unknown_field: the body is skipped; with RETAIN_UNKNOWN_FIELDS the
\* tag and the body's bytes are added to unknown_fields
parse_unknown_field(msg, data, off, tag, flags) ==
    With(skip_field(data, off, wire_type_for_tag(tag)), LAMBDA sk :
    IF sk.st # "ok" THEN PRes(sk.st, msg, sk.off)
    ELSE IF ~HasFlag(flags, RETAIN_UNKNOWN_FIELDS) THEN PRes("ok", msg, sk.off)
    \* r.where() - start_offset wrapped: std::string of that size throws
    ELSE IF sk.off < off THEN PRes("length_error", msg, sk.off)
    ELSE PRes("ok",
              [msg EXCEPT !.v.unknown =
                   Append(@, [tag |-> tag, body |-> preadx(data, off, sk.off - off)])],
              sk.off))

\* a faulty handle_incorrect_type: as if IGNORE_INCORRECT_TYPES were always set
always_ignore_incorrect_type(msg, data, off, tag, flags) ==
    parse_unknown_field(msg, data, off, tag, flags)

\* handle_incorrect_type
handle_incorrect_type(msg, data, off, tag, flags) ==
    IF ~HasFlag(flags, IGNORE_INCORRECT_TYPES) THEN PRes("incorrect_type", msg, off)
    ELSE parse_unknown_field(msg, data, off, tag, flags)

\* the slot of group g assigned what a repeated or map parser returned
store(msg, g, r) == PRes(r.st, [msg EXCEPT !.v.slots[g.name] = r.val], r.off)

\* the slot of group g assigned the value a codec parsed, if it parsed one
store_value(msg, g, r) ==
    IF r.st = "ok" THEN store(msg, g, r) ELSE PRes(r.st, msg, r.off)

\* one case of the parse loop's switch: field f of group g, the tag read
parse_field(msg, g, f, data, off, tag, flags) ==
    CASE f.card = "REPEATED" ->
           IF can_use_packed_repeated_format(f.dt) /\ wire_type_for_tag(tag) = WT_LENGTH
           THEN store(msg, g, parse_packed_repeated(f, msg.v.slots[g.name], data, off, flags))
           ELSE IF wire_type_for_tag(tag) = wire_type_for_data_type(f.dt)
           THEN store(msg, g,
                      parse_unpacked_repeated(f, msg.v.slots[g.name], data, off, flags))
           ELSE handle_incorrect_type(msg, data, off, tag, flags)
      [] f.card = "MAP" ->
           IF wire_type_for_tag(tag) = WT_LENGTH
           THEN store(msg, g, parse_map(f, msg.v.slots[g.name], data, off, flags))
           ELSE handle_incorrect_type(msg, data, off, tag, flags)
      [] OTHER ->
           IF wire_type_for_tag(tag) = wire_type_for_data_type(f.dt)
           THEN store_value(msg, g, parse(f.dt, data, off, f.enum, f.sub, flags))
           ELSE handle_incorrect_type(msg, data, off, tag, flags)

\* the switch of the parse loop on the field number of the tag read
parse_switch(msg, fs, data, off, tag, flags) ==
    IF fs = {} THEN parse_unknown_field(msg, data, off, tag, flags)
    ELSE With(CHOOSE x \in fs : TRUE, LAMBDA gf :
         parse_field(msg, gf[1], gf[2], data, off, tag, flags))

\* the loop of parse_proto_into_this from offset off.  seen holds the offsets
\* at which a tag was read: the reader coming back to one of them (a skip
\* that wrapped) repeats the same steps for ever.
RECURSIVE parse_loop(_, _, _, _, _)
parse_loop(msg, data, off, flags, seen) ==
    IF eof(data, off) THEN [st |-> "ok", msg |-> msg]
    ELSE With(decode_varint(data, off), LAMBDA tag :
         IF tag.st # "ok" THEN [st |-> tag.st, msg |-> msg]
         ELSE With(parse_switch(msg, FieldsForNumber(msg.v.type, field_num_for_tag(tag.val)),
                                data, tag.off, tag.val, flags),
                   LAMBDA r :
              IF r.st # "ok" THEN [st |-> r.st, msg |-> r.msg]
              ELSE IF r.off \in seen \cup {off} THEN [st |-> "diverges", msg |-> r.msg]
              ELSE parse_loop(r.msg, data, r.off, flags, seen \cup {off})))

\* a faulty parse_proto_into_this: the receiver's state is dropped first
parse_into_fresh(msg, data, flags) ==
    parse_loop(new_with_default_values(msg.v.type), data, 0, flags, {})

\* parse_proto_into_this: the status, and the receiver as the parse leaves it
parse_proto_into_this(msg, data, flags) == parse_loop(msg, data, 0, flags, {})

\* from_proto_data: a new message with default values parsed into, or the
\* error and no message
from_proto_data(t, data, flags) ==
    With(parse_proto_into_this(new_with_default_values(t), data, flags), LAMBDA r :
    IF r.st = "ok" THEN [st |-> "ok", val |-> r.msg]
    ELSE [st |-> r.st, val |-> PyNone])

\* the order in which iterating unknown_fields (an unordered_multimap) yields
\* its entries: unspecified but for equal tags being adjacent.  pol names the
\* container's behaviour: entries grouped by tag in order of first insertion,
\* or the reverse of that.
UnknownOrder(unknown, pol) ==
    LET firsts == {i \in 1..Len(unknown) :
                      \A j \in 1..(i - 1) : unknown[j].tag # unknown[i].tag}
        rank(i) == CHOOSE f \in firsts : unknown[f].tag = unknown[i].tag
        before(i, j) == rank(i) < rank(j) \/ (rank(i) = rank(j) /\ i < j)
        pos(i) == Cardinality({j \in 1..Len(unknown) : before(j, i)}) + 1
        grouped == [p \in 1..Len(unknown) |->
                       unknown[CHOOSE i \in 1..Len(unknown) : pos(i) = p]]
    IN  IF pol = "insertion" THEN grouped
        ELSE [p \in 1..Len(unknown) |-> grouped[Len(unknown) + 1 - p]]

RECURSIVE serialize_unknown(_, _)
serialize_unknown(entries, i) ==
    IF i > Len(entries) THEN <<>>
    ELSE encode_varint(entries[i].tag) \o entries[i].body
         \o serialize_unknown(entries, i + 1)

\* one field group of as_proto_data
serialize_group(g, obj, pol) ==
    LET f == g.fields[1]
    IN  IF g.oneof THEN serialize_oneof_with_tag(g.fields, 1, obj, pol)
        ELSE CASE f.card = "REPEATED" -> serialize_repeated_with_tag(f, obj, pol)
               [] f.card = "MAP" -> serialize_map_with_tag(f, obj, pol)
               [] OTHER ->
                    IF ~value_matches_type(f.dt, obj, f.enum, f.sub, f.card = "OPTIONAL")
                    THEN SErr("incorrect_data_type")
                    ELSE serialize_with_tag(f.dt, f.num,
                                            IF f.card = "OPTIONAL" THEN "OPTIONAL"
                                            ELSE "REQUIRED",
                                            obj, f.enum, f.sub, pol)

RECURSIVE serialize_groups(_, _, _, _)
serialize_groups(t, msg, i, pol) ==
    IF i > Len(Schema[t]) THEN SOk(<<>>)
    ELSE then_bytes(serialize_group(Schema[t][i], msg.v.slots[Schema[t][i].name], pol),
                    serialize_groups(t, msg, i + 1, pol))

\* as_proto_data: the field groups in declaration order, then the unknown
\* fields, each as its tag re-encoded and its body
as_proto_data(t, py_self, pol) ==
    IF ~(py_self.k = "msg" /\ py_self.v.type = t) THEN SErr("invalid_argument")
    ELSE then_bytes(serialize_groups(t, py_self, 1, pol),
                    SOk(serialize_unknown(UnknownOrder(py_self.v.unknown, pol), 1)))

\* py_richcompare with Py_EQ
py_richcompare(py_self, py_other) ==
    /\ py_other.k = "msg"
    /\ py_other.v.type = py_self.v.type
    /\ \A n \in DOMAIN py_self.v.slots : PyEq(py_self.v.slots[n], py_other.v.slots[n])

\* a faulty py_delete_unknown_fields: unknown_fields is left as it is
keep_unknown_fields(py_self) == py_self

\* py_delete_unknown_fields
py_delete_unknown_fields(py_self) == [py_self EXCEPT !.v.unknown = <<>>]

\* py_has_unknown_fields
py_has_unknown_fields(py_self) == Len(py_self.v.unknown) > 0

(***************************************************************************)
(* Inputs: constructor arguments and wire fields                           *)
(***************************************************************************)

\* the most constructor arguments plus wire fields one behaviour feeds in
MaxWork == 2

F32_1_5 == <<0, 0, 192, 63, 0, 0, 0, 0>>
\* the 32-bit float nearest to 0.1, which no 32-bit float equals
F32_0_1 == <<205, 204, 204, 61, 0, 0, 0, 0>>
U64Max == <<255, 255, 255, 255, 255, 255, 255, 255>>
U32Max == <<255, 255, 255, 255, 0, 0, 0, 0>>

InnerOf(n) == py_init("Inner", [f_x |-> PyInt(n)])

\* the values a caller passes for each field group: valid for the group
ArgValues ==
    [LongMessage |->
        [f_oneof |-> {PyEnum("MyEnum", 3), PyStr(<<>>), PyStr(<<104>>)},
         f_uint64 |-> {PyList(<<PyInt(1)>>), PyList(<<PyInt(300), PyIntW(FALSE, U64Max)>>)},
         f_maybe_bytes |-> {PyBytes(<<>>), PyBytes(<<97>>)},
         f_map_str_float |->
             {PyDict(<<[key |-> PyStr(<<107>>), val |-> PyFloat(F32_1_5)]>>),
              PyDict(<<[key |-> PyStr(<<>>), val |-> PyFloat(W0)]>>),
              PyDict(<<[key |-> PyStr(<<107>>), val |-> PyDouble(F32_0_1, 1)]>>)}],
     Outer |->
        [f_int32 |-> {PyInt(7), PyInt(-1)},
         f_sub |-> {InnerOf(0), InnerOf(5)},
         f_fixed32 |-> {PyList(<<PyInt(1)>>), PyList(<<PyInt(0), PyIntW(FALSE, U32Max)>>)},
         f_strings |-> {PyList(<<PyStr(<<>>)>>), PyList(<<PyStr(<<97>>), PyStr(<<98>>)>>)}],
     Optionals |->
        [f_maybe_int32 |-> {PyInt(0), PyInt(5)},
         f_maybe_bool |-> {PyBool(FALSE), PyBool(TRUE)},
         f_maybe_enum |-> {PyEnum("MyEnum", 0), PyEnum("MyEnum", 3)},
         f_maybe_string |-> {PyStr(<<>>), PyStr(<<97>>)},
         f_maybe_sub |-> {InnerOf(0), InnerOf(5)}]]

ReceiverTypes == DOMAIN ArgValues

\* the keyword arguments of one constructor call: at most n groups overridden
Kwargs(t, n) ==
    UNION {{kw \in [S -> UNION {ArgValues[t][g] : g \in S}] :
               \A g \in S : kw[g] \in ArgValues[t][g]} :
           S \in {S \in SUBSET GroupNames(t) : Cardinality(S) <= n}}

\* One field on the wire: its bytes b, the field number num of its tag, and
\* what it is: "value" (a well-formed singular or optional field carrying
\* vals[1]), "rep" (a chunk of a repeated field carrying the elements vals),
\* "map" (a map entry with key vals[1] and value vals[2]), "mismatch" (a known
\* field number with a wire type the field does not expect), "unknown" (a
\* field number not in the schema), "trunc" (a field cut short), "bad" (a
\* sub-message whose body does not parse).  grp: a tag of wire type 3, 4, 6
\* or 7 occurs in it.
Frag(b, num, cls, vals, grp) ==
    [b |-> b, num |-> num, cls |-> cls, vals |-> vals, grp |-> grp]

Frags ==
    [LongMessage |-> <<
        Frag(<<8, 3>>, 1, "value", <<PyEnum("MyEnum", 3)>>, FALSE),
        Frag(<<18, 1, 104>>, 2, "value", <<PyStr(<<104>>)>>, FALSE),
        Frag(<<24, 5>>, 3, "rep", <<PyInt(5)>>, FALSE),
        Frag(<<26, 3, 172, 2, 0>>, 3, "rep", <<PyInt(300), PyInt(0)>>, FALSE),
        Frag(<<34, 0>>, 4, "value", <<PyBytes(<<>>)>>, FALSE),
        Frag(<<42, 8, 10, 1, 107, 21, 0, 0, 192, 63>>, 5, "map",
             <<PyStr(<<107>>), PyFloat(F32_1_5)>>, FALSE),
        Frag(<<42, 3, 10, 1, 107>>, 5, "map", <<PyStr(<<107>>), PyFloat(W0)>>, FALSE),
        Frag(<<16, 1>>, 2, "mismatch", <<>>, FALSE),
        Frag(<<29, 1, 0, 0, 0>>, 3, "mismatch", <<>>, FALSE),
        Frag(<<48, 1>>, 6, "unknown", <<>>, FALSE),
        Frag(<<176, 0, 1>>, 6, "unknown", <<>>, FALSE),
        Frag(<<58, 1, 7>>, 7, "unknown", <<>>, FALSE),
        Frag(<<51>>, 6, "unknown", <<>>, TRUE),
        Frag(<<12>>, 1, "mismatch", <<>>, TRUE),
        Frag(<<42, 1, 27>>, 5, "map", <<PyStr(<<>>), PyFloat(W0)>>, TRUE),
        Frag(<<24>>, 3, "trunc", <<>>, FALSE) >>,
     Outer |-> <<
        Frag(<<8, 7>>, 1, "value", <<PyInt(7)>>, FALSE),
        Frag(<<8, 255, 255, 255, 255, 255, 255, 255, 255, 255, 1>>, 1, "value",
             <<PyInt(-1)>>, FALSE),
        Frag(<<18, 2, 8, 5>>, 2, "value", <<InnerOf(5)>>, FALSE),
        Frag(<<29, 1, 0, 0, 0>>, 3, "rep", <<PyInt(1)>>, FALSE),
        Frag(<<26, 8, 0, 0, 0, 0, 255, 255, 255, 255>>, 3, "rep",
             <<PyInt(0), PyIntW(FALSE, U32Max)>>, FALSE),
        Frag(<<34, 1, 97>>, 4, "rep", <<PyStr(<<97>>)>>, FALSE),
        Frag(<<10, 1, 0>>, 1, "mismatch", <<>>, FALSE),
        Frag(<<17, 1, 2, 3, 4, 5, 6, 7, 8>>, 2, "mismatch", <<>>, FALSE),
        Frag(<<40, 1>>, 5, "unknown", <<>>, FALSE),
        Frag(<<18, 1, 11>>, 2, "bad", <<>>, TRUE),
        Frag(<<18, 2, 8>>, 2, "trunc", <<>>, FALSE) >>,
     Optionals |-> <<
        Frag(<<8, 0>>, 1, "value", <<PyInt(0)>>, FALSE),
        Frag(<<16, 0>>, 2, "value", <<PyBool(FALSE)>>, FALSE),
        Frag(<<24, 3>>, 3, "value", <<PyEnum("MyEnum", 3)>>, FALSE),
        Frag(<<34, 0>>, 4, "value", <<PyStr(<<>>)>>, FALSE),
        Frag(<<42, 0>>, 5, "value", <<InnerOf(0)>>, FALSE),
        Frag(<<13, 0, 0, 0, 0>>, 1, "mismatch", <<>>, FALSE),
        Frag(<<18, 1, 97>>, 2, "mismatch", <<>>, FALSE),
        Frag(<<48, 1>>, 6, "unknown", <<>>, FALSE),
        Frag(<<60>>, 7, "unknown", <<>>, TRUE) >>]

\* the inputs of one parse call: up to n wire fields of the type's library,
\* each named by its index
Inputs(t, n) == UNION {[1..k -> 1..Len(Frags[t])] : k \in 1..n}

\* the byte string of an input
RECURSIVE Cat(_, _, _)
Cat(t, inp, i) ==
    IF i > Len(inp) THEN <<>> ELSE Frags[t][inp[i]].b \o Cat(t, inp, i + 1)

Data(t, inp) == Cat(t, inp, 1)

(***************************************************************************)
(* The state machine: one caller, one message object m of type mtype       *)
(***************************************************************************)

VARIABLES
    mtype,   \* the generated message type the caller uses
    flags,   \* the ParseFlag bits the caller passes to the parsers
    order,   \* the iteration order of unknown_fields, once a serialization
             \* has shown it ("unset" before)
    m,       \* the message object, PyNone while there is none
    work,    \* constructor arguments and wire fields fed in so far
    lastp,   \* the last construction or parse of m: the call, its input, its
             \* outcome and m before it
    out,     \* m.as_proto_data() of the current m, if taken
    r,       \* from_proto_data(out.bytes), if taken
    rout,    \* r.as_proto_data(), if taken
    call     \* a single call of one operation on inputs of its own: the
             \* operation, its arguments and what it returned

vars == <<mtype, flags, order, m, work, lastp, out, r, rout, call>>

Policies == {"insertion", "reverse"}
DefaultFlags == RETAIN_UNKNOWN_FIELDS

NoBytes == [st |-> "none", bytes |-> <<>>]
NoMsg == [st |-> "none", val |-> PyNone]
NoCall == [op |-> "none"]

Init ==
    /\ mtype \in ReceiverTypes
    /\ flags \in 0..(RETAIN_UNKNOWN_FIELDS + IGNORE_INCORRECT_TYPES)
    /\ order = "unset"
    /\ m = PyNone
    /\ work = 0
    /\ lastp = [op |-> "none", inp |-> <<>>, st |-> "none", before |-> PyNone]
    /\ out = NoBytes
    /\ r = NoMsg
    /\ rout = NoBytes
    /\ call = NoCall

\* M(**kwargs): py_new, then py_init
Construct ==
    /\ lastp.op = "none"
    /\ \E kwargs \in Kwargs(mtype, MaxWork) :
          /\ m' = py_init(mtype, kwargs)
          /\ work' = Cardinality(DOMAIN kwargs)
          /\ lastp' = [op |-> "init", inp |-> <<>>, st |-> "ok", before |-> PyNone]
    /\ UNCHANGED <<mtype, flags, order, out, r, rout, call>>

\* m = M.from_proto_data(data, flags): no message if the parse fails
py_from_proto_data ==
    /\ lastp.op = "none"
    /\ \E inp \in Inputs(mtype, MaxWork) :
          With(from_proto_data(mtype, Data(mtype, inp), flags), LAMBDA res :
              /\ m' = res.val
              /\ work' = Len(inp)
              /\ lastp' = [op |-> "from", inp |-> inp, st |-> res.st,
                           before |-> new_with_default_values(mtype)])
    /\ UNCHANGED <<mtype, flags, order, out, r, rout, call>>

\* m.parse_proto_into_this(data, flags): m is left as the parse leaves it,
\* whether it fails or not
py_parse_proto_into_this ==
    /\ m.k = "msg"
    /\ work < MaxWork
    /\ \E inp \in Inputs(mtype, MaxWork - work) :
          With(parse_proto_into_this(m, Data(mtype, inp), flags), LAMBDA res :
              /\ m' = res.msg
              /\ work' = work + Len(inp)
              /\ lastp' = [op |-> "into", inp |-> inp, st |-> res.st, before |-> m])
    /\ out' = NoBytes
    /\ r' = NoMsg
    /\ rout' = NoBytes
    /\ UNCHANGED <<mtype, flags, order, call>>

\* a serialization shows the container's iteration order when it has entries
\* that the two orders arrange differently
Shows(msg, pol) ==
    IF as_proto_data(mtype, msg, "insertion") = as_proto_data(mtype, msg, "reverse")
    THEN order ELSE pol

\* m.as_proto_data()
py_as_proto_data ==
    /\ m.k = "msg"
    /\ out.st = "none"
    /\ \E pol \in Policies :
          /\ order \in {"unset", pol}
          /\ out' = as_proto_data(mtype, m, pol)
          /\ order' = Shows(m, pol)
    /\ UNCHANGED <<mtype, flags, m, work, lastp, r, rout, call>>

\* r = M.from_proto_data(m.as_proto_data()), with the default flags
py_from_proto_data_own ==
    /\ out.st = "ok"
    /\ r.st = "none"
    /\ r' = from_proto_data(mtype, out.bytes, DefaultFlags)
    /\ UNCHANGED <<mtype, flags, order, m, work, lastp, out, rout, call>>

\* r.as_proto_data()
py_as_proto_data_r ==
    /\ r.st = "ok"
    /\ rout.st = "none"
    /\ \E pol \in Policies :
          /\ order \in {"unset", pol}
          /\ rout' = as_proto_data(mtype, r.val, pol)
          /\ order' = Shows(r.val, pol)
    /\ UNCHANGED <<mtype, flags, m, work, lastp, out, r, call>>

Next ==
    \/ Construct
    \/ py_from_proto_data
    \/ py_parse_proto_into_this
    \/ py_as_proto_data
    \/ py_from_proto_data_own
    \/ py_as_proto_data_r

Spec == Init /\ [][Next]_vars

(***************************************************************************)
(* Single calls: one operation applied to arguments of its own             *)
(***************************************************************************)

main == <<mtype, flags, order, m, work, lastp, out, r, rout>>

S32Max == <<255, 255, 255, 127, 0, 0, 0, 0>>
S32Min == <<0, 0, 0, 128, 255, 255, 255, 255>>
S64Max == <<255, 255, 255, 255, 255, 255, 255, 127>>

SmallNats == {0, 1, 2, 5, 63, 64, 127, 128, 300, 16384}

\* 64-bit words around the edges of the 7-bit groups and of the 32-bit and
\* 64-bit ranges, as int64_t or uint64_t
EdgeWords ==
    {WOf(n) : n \in SmallNats} \cup {WNeg(WOf(n)) : n \in SmallNats}
    \cup {S32Max, S32Min, WAdd(S32Max, WOf(1)), WAdd(S32Min, WNeg(WOf(1))),
          U32Max, WAdd(U32Max, WOf(1)), S64Max, WMinS64, WAdd(WMinS64, WOf(1))}

\* encode_varint_signed32(w, n) or encode_varint_signed64(w, n) on an empty
\* writer; the int32_t n is given as its sign extension
Call_encode_varint_signed ==
    /\ call = NoCall
    /\ \E width \in {32, 64} : \E n \in EdgeWords :
          /\ width = 32 => is_in_s32_range(n)
          /\ call' = [op |-> "encode_varint_signed", width |-> width, n |-> n,
                      bytes |-> IF width = 32 THEN encode_varint_signed32(n)
                                ELSE encode_varint_signed64(n)]
    /\ UNCHANGED main

\* decode_varint_signed(r) on a reader over the bytes just written
Call_decode_varint_signed ==
    /\ call.op = "encode_varint_signed"
    /\ call' = [op |-> "decode_varint_signed", width |-> call.width, n |-> call.n,
                bytes |-> call.bytes, res |-> decode_varint_signed(call.bytes, 0)]
    /\ UNCHANGED main

\* Python ints of every sign and magnitude among the edge words
IntObjs == {PyIntW(neg, mag) : neg \in BOOLEAN, mag \in EdgeWords}

CallTypes == ReceiverTypes \cup {"Ints32", "Enums", "Oneofs"}

\* the values a caller passes for field group g of type t in a single call:
\* for the 32-bit integer fields, ints in and out of the field's range
CallValues(t, g) ==
    CASE t \in ReceiverTypes -> ArgValues[t][g]
      [] t = "Ints32" ->
           IF g \in {"f_uint32s", "f_sint32s"}
           THEN {PyList(<<PyInt(1), x>>) : x \in IntObjs}
           ELSE IntObjs
      [] t = "Oneofs" ->
           IF g = "f_opt"
           THEN {PyNone, PyInt(0), PyInt(5), PyStr(<<>>), PyStr(<<104>>)}
           ELSE {PyInt(0), PyInt(7), PyInt(-1), PyIntW(FALSE, WAdd(U32Max, WOf(1))),
                 PyBool(FALSE), PyBool(TRUE), PyBytes(<<>>), PyBytes(<<97>>),
                 PyStr(<<104>>), PyNone}
      [] t = "Enums" ->
           CASE g = "f_enum" -> {PyEnum("MyEnum", 3)}
             [] g = "f_enums" -> {PyList(<<PyEnum("MyEnum", 3), PyEnum("MyEnum", 0)>>)}
             [] g = "f_map_int_enum" ->
                  {PyDict(<<[key |-> PyInt(1), val |-> PyEnum("MyEnum", 3)]>>)}

\* the keyword arguments of a single constructor call: none, or one
CallKwargs(t) ==
    {<<>>} \cup UNION {{[x \in {g} |-> v] : v \in CallValues(t, g)} : g \in GroupNames(t)}

\* One input of a single parse call: its bytes b, and for an input that
\* carries integers for one field group, the group g and the integers ints
\* that the varints on the wire encode, in wire order.
Case(b, g, ints) == [b |-> b, g |-> g, ints |-> ints]

\* 3 + 2^32
W3High == <<3, 0, 0, 0, 1, 0, 0, 0>>

\* enum fields: singular, unpacked, packed, and the value of a map entry,
\* with and without a member of MyEnum for the integer
EnumCases ==
    {Case(<<8, 3>>, "f_enum", <<WOf(3)>>),
     Case(<<8, 1>>, "f_enum", <<WOf(1)>>),
     Case(<<8, 131, 128, 128, 128, 16>>, "f_enum", <<W3High>>),
     Case(<<16, 3>>, "f_enums", <<WOf(3)>>),
     Case(<<16, 1>>, "f_enums", <<WOf(1)>>),
     Case(<<18, 2, 3, 0>>, "f_enums", <<WOf(3), WOf(0)>>),
     Case(<<18, 2, 3, 1>>, "f_enums", <<WOf(3), WOf(1)>>),
     Case(<<26, 4, 8, 1, 16, 3>>, "f_map_int_enum", <<WOf(3)>>),
     Case(<<26, 4, 8, 1, 16, 1>>, "f_map_int_enum", <<WOf(1)>>),
     Case(<<26, 2, 8, 1>>, "f_map_int_enum", <<WOf(0)>>)}

\* 2^32 and 2^33 - 2
W2p32 == <<0, 0, 0, 0, 1, 0, 0, 0>>
W2p33m2 == <<254, 255, 255, 255, 1, 0, 0, 0>>

\* 32-bit integer fields carrying varints of more than 32 bits
Int32Cases ==
    {Case(<<8, 255, 255, 255, 255, 15>>, "f_int32", <<U32Max>>),
     Case(<<8, 128, 128, 128, 128, 16>>, "f_int32", <<W2p32>>),
     Case(<<8, 255, 255, 255, 255, 255, 255, 255, 255, 255, 1>>, "f_int32", <<U64Max>>),
     Case(<<16, 255, 255, 255, 255, 15>>, "f_uint32", <<U32Max>>),
     Case(<<16, 128, 128, 128, 128, 16>>, "f_uint32", <<W2p32>>),
     Case(<<24, 1>>, "f_sint32", <<WOf(1)>>),
     Case(<<24, 255, 255, 255, 255, 15>>, "f_sint32", <<U32Max>>),
     Case(<<24, 128, 128, 128, 128, 16>>, "f_sint32", <<W2p32>>),
     Case(<<50, 6, 1, 128, 128, 128, 128, 16>>, "f_uint32s", <<WOf(1), W2p32>>),
     Case(<<48, 5>>, "f_uint32s", <<WOf(5)>>),
     Case(<<56, 254, 255, 255, 255, 31>>, "f_sint32s", <<W2p33m2>>),
     Case(<<58, 2, 3, 4>>, "f_sint32s", <<WOf(3), WOf(4)>>)}

\* oneof groups carried once, and twice by the same or by different members
OneofCases ==
    {Case(<<8, 5>>, "f_opt", <<>>),
     Case(<<8, 5, 18, 1, 104>>, "f_opt", <<>>),
     Case(<<18, 1, 104, 8, 5>>, "f_opt", <<>>),
     Case(<<24, 7, 32, 9>>, "f_num", <<>>),
     Case(<<40, 1, 24, 7>>, "f_num", <<>>),
     Case(<<50, 1, 97, 40, 0>>, "f_num", <<>>)}

\* field 6, which no receiver type has, of wire type LENGTH and length
\* 2^64 - 11: the tag and the length are the 11 bytes of the input
LengthToStart == <<50, 245, 255, 255, 255, 255, 255, 255, 255, 255, 1>>

\* field 2 (a string of LongMessage's oneof, the sub-message of Outer, a
\* bool of Optionals) of wire type LENGTH and length 2^64 - 1, and no byte
\* after the length
LengthPastEnd == <<18, 255, 255, 255, 255, 255, 255, 255, 255, 255, 1>>

\* One occurrence b of LongMessage's map field 5 (string to float), and the
\* key and the value that fields 1 and 2 of the entry carry, the type's
\* default for a field the entry lacks.  The entries have neither field, the
\* key only, the value only, and a field 3 of wire type LENGTH, VARINT, INT32
\* or INT64 beside them.
MapEntry(b, key, val) == [b |-> b, key |-> key, val |-> val]
MapEntries ==
    {MapEntry(<<42, 0>>, PyStr(<<>>), PyFloat(W0)),
     MapEntry(<<42, 3, 10, 1, 107>>, PyStr(<<107>>), PyFloat(W0)),
     MapEntry(<<42, 5, 21, 0, 0, 192, 63>>, PyStr(<<>>), PyFloat(F32_1_5)),
     MapEntry(<<42, 5, 26, 3, 10, 1, 97>>, PyStr(<<>>), PyFloat(W0)),
     MapEntry(<<42, 5, 10, 1, 107, 24, 7>>, PyStr(<<107>>), PyFloat(W0)),
     MapEntry(<<42, 5, 29, 10, 1, 97, 0>>, PyStr(<<>>), PyFloat(W0)),
     MapEntry(<<42, 9, 25, 0, 0, 0, 0, 0, 0, 0, 0>>, PyStr(<<>>), PyFloat(W0))}

\* the inputs of a single parse call on type t
CallCases(t) ==
    CASE t = "Enums" -> EnumCases
      [] t = "Oneofs" -> OneofCases
      [] t = "Ints32" -> Int32Cases
      [] OTHER -> {Case(Frags[t][i].b, "", <<>>) : i \in 1..Len(Frags[t])}
                  \cup {Case(LengthToStart, "", <<>>), Case(LengthPastEnd, "", <<>>)}
                  \cup (IF t = "LongMessage"
                        THEN {Case(e.b, "f_map_str_float", <<>>) : e \in MapEntries}
                        ELSE {})

AllFlags == 0..(RETAIN_UNKNOWN_FIELDS + IGNORE_INCORRECT_TYPES)

\* a field no message type of the schema has: number 15, VARINT, value 1
UnknownField == <<120, 1>>

\* that field twice, with values 1 and 2
UnknownTwice == <<120, 1, 120, 2>>

\* what may follow an input of a single parse call on type t
Tails(t) == IF t \in ReceiverTypes THEN {<<>>, UnknownField, UnknownTwice} ELSE {<<>>}

\* self = M(**kwargs)
Call_py_init ==
    /\ call = NoCall
    /\ \E t \in CallTypes : \E kwargs \in CallKwargs(t) :
          call' = [op |-> "init", type |-> t, kwargs |-> kwargs,
                   res |-> [st |-> "ok", val |-> py_init(t, kwargs)]]
    /\ UNCHANGED main

\* self = M.from_proto_data(data, flags), the data being one input alone or
\* followed by the unknown field
Call_py_from_proto_data ==
    /\ call = NoCall
    /\ \E t \in CallTypes : \E c \in CallCases(t) : \E u \in Tails(t) : \E fl \in AllFlags :
          call' = [op |-> "from_proto_data", type |-> t, case |-> c,
                   data |-> c.b \o u, flags |-> fl,
                   res |-> from_proto_data(t, c.b \o u, fl)]
    /\ UNCHANGED main

\* the call made has returned a message, the receiver of the next call
HasSelf == call.op \in {"init", "from_proto_data"} /\ call.res.st = "ok"

\* self.as_proto_data()
Call_py_as_proto_data ==
    /\ HasSelf
    /\ \E pol \in Policies :
          call' = [op |-> "as_proto_data", self |-> call.res.val,
                   res |-> as_proto_data(call.type, call.res.val, pol)]
    /\ UNCHANGED main

\* self.__reduce__(): the free constructor, no arguments for it, and
\* self.as_proto_data() as the state
Call_py_reduce ==
    /\ HasSelf
    /\ \E pol \in Policies :
          call' = [op |-> "reduce", self |-> call.res.val,
                   res |-> as_proto_data(call.type, call.res.val, pol)]
    /\ UNCHANGED main

\* r = __construct__M(), the free constructor of the reduced value: M()
Call_py_free_constructor ==
    /\ call.op = "reduce"
    /\ call.res.st = "ok"
    /\ call' = [op |-> "free_constructor", self |-> call.self, state |-> call.res.bytes,
                r |-> py_init(call.self.v.type, <<>>)]
    /\ UNCHANGED main

\* r.__setstate__(state): the state is parsed into r with no flag set
Call_py_setstate ==
    /\ call.op = "free_constructor"
    /\ With(parse_proto_into_this(call.r, call.state, 0), LAMBDA res :
            call' = [op |-> "setstate", self |-> call.self, state |-> call.state,
                     st |-> res.st, r |-> res.msg])
    /\ UNCHANGED main

\* self.proto_copy(**kwargs)
Call_py_proto_copy ==
    /\ HasSelf
    /\ call.type \in ReceiverTypes
    /\ \E kwargs \in Kwargs(call.type, MaxWork) :
          call' = [op |-> "proto_copy", before |-> call.res.val, kwargs |-> kwargs,
                   self |-> call.res.val, res |-> py_proto_copy(call.res.val, kwargs)]
    /\ UNCHANGED main

\* c = self.proto_copy(**kwargs) with at most one keyword argument, as the
\* first of two calls
Seq_py_proto_copy ==
    /\ HasSelf
    /\ call.type \in ReceiverTypes
    /\ \E kwargs \in CallKwargs(call.type) :
          call' = [op |-> "proto_copy", before |-> call.res.val, kwargs |-> kwargs,
                   self |-> call.res.val, res |-> py_proto_copy(call.res.val, kwargs)]
    /\ UNCHANGED main

\* The groups of type t whose slot a parse never assigns: it appends to the
\* list, or sets items of the dict, that the slot holds.
InPlaceGroups(t) ==
    {Schema[t][i].name : i \in {i \in 1..Len(Schema[t]) :
        ~Schema[t][i].oneof /\ Schema[t][i].fields[1].card \in {"REPEATED", "MAP"}}}

\* Message other after a parse into parsed, the two being a message and its
\* copy made with kwargs: a slot that proto_copy filled with a new reference
\* to the object in self's slot holds the same object in both, and shows in
\* other what the parse put into that object.
Aliasing(other, parsed, kwargs) ==
    [other EXCEPT !.v.slots =
        [n \in DOMAIN @ |->
            IF n \in InPlaceGroups(other.v.type) /\ n \notin DOMAIN kwargs
            THEN parsed.v.slots[n] ELSE @[n]]]

\* the inputs of a parse after a copy: the type's well-formed known fields
CopyInputs(t) ==
    {Frags[t][i].b : i \in {i \in 1..Len(Frags[t]) :
        Frags[t][i].cls \in {"value", "rep", "map"} /\ ~Frags[t][i].grp}}

\* c = self.proto_copy(**kwargs) being done, who.parse_proto_into_this(data,
\* flags) for who one of self and c
Call_py_parse_proto_into_copy ==
    /\ call.op = "proto_copy"
    /\ \E who \in {"self", "copy"}, data \in CopyInputs(call.self.v.type) :
          LET target == IF who = "self" THEN call.self ELSE call.res
              other == IF who = "self" THEN call.res ELSE call.self
          IN  With(parse_proto_into_this(target, data, DefaultFlags), LAMBDA res :
                  call' = [op |-> "parse_proto_into_copy", who |-> who,
                           kwargs |-> call.kwargs, data |-> data, st |-> res.st,
                           target |-> res.msg, before |-> other,
                           other |-> Aliasing(other, res.msg, call.kwargs)])
    /\ UNCHANGED main

\* self.delete_unknown_fields()
Call_py_delete_unknown_fields ==
    /\ HasSelf
    /\ call' = [op |-> "delete_unknown_fields", before |-> call.res.val,
                self |-> py_delete_unknown_fields(call.res.val)]
    /\ UNCHANGED main

\* self.has_unknown_fields()
Call_py_has_unknown_fields ==
    /\ HasSelf
    /\ call' = [op |-> "has_unknown_fields", self |-> call.res.val,
                res |-> py_has_unknown_fields(call.res.val)]
    /\ UNCHANGED main

\* the receivers of a single parse call: a new message, and one that has
\* retained the unknown field
ParseReceivers(t) ==
    {new_with_default_values(t),
     [new_with_default_values(t) EXCEPT
         !.v.unknown = <<[tag |-> WOf(UnknownField[1]), body |-> Tail(UnknownField)]>>]}

\* self.parse_proto_into_this(data, flags), the data being one input alone
\* or followed by the unknown field
Call_py_parse_proto_into_this ==
    /\ call = NoCall
    /\ \E t \in ReceiverTypes :
          \E x \in ParseReceivers(t) \X CallCases(t) \X Tails(t) \X AllFlags :
             With(parse_proto_into_this(x[1], x[2].b \o x[3], x[4]), LAMBDA res :
                 call' = [op |-> "parse_proto_into_this", before |-> x[1],
                          data |-> x[2].b \o x[3], flags |-> x[4],
                          st |-> res.st, self |-> res.msg])
    /\ UNCHANGED main

\* the readers of a single StringReader call: the data, and the offset
ReaderStates == {x \in {<<>>, <<1>>, <<1, 2, 3>>} \X (0..3) : x[2] <= Len(x[1])}

\* r.skip(bytes)
Call_skip ==
    /\ call = NoCall
    /\ \E x \in ReaderStates : \E bytes \in EdgeWords :
          call' = [op |-> "skip", data |-> x[1], offset |-> x[2], size |-> bytes,
                   res |-> skip(x[1], x[2], bytes)]
    /\ UNCHANGED main

\* r.subx(r.where(), size)
Call_subx ==
    /\ call = NoCall
    /\ \E x \in ReaderStates : \E size \in EdgeWords :
          call' = [op |-> "subx", data |-> x[1], offset |-> x[2], size |-> size,
                   res |-> subx(x[1], x[2], size)]
    /\ UNCHANGED main

\* r.getv(size)
Call_getv ==
    /\ call = NoCall
    /\ \E x \in ReaderStates : \E size \in EdgeWords :
          call' = [op |-> "getv", data |-> x[1], offset |-> x[2], size |-> size,
                   res |-> getv(x[1], x[2], size)]
    /\ UNCHANGED main

\* the most bytes of an input of decode_varint
MaxVarintBytes == 12

\* byte strings of continuation bytes, ended by a last byte or cut short
VarintInputs ==
    {[i \in 1..k |-> c] \o last :
        k \in 0..(MaxVarintBytes - 1), c \in {128, 255},
        last \in {<<>>, <<0>>, <<1>>, <<2>>, <<127>>}}

\* decode_varint(r) on a reader over data
Call_decode_varint ==
    /\ call = NoCall
    /\ \E data \in VarintInputs :
          call' = [op |-> "decode_varint", data |-> data, res |-> decode_varint(data, 0)]
    /\ UNCHANGED main

\* 2^e as a uint64_t, e < 64
Pow2W(e) == [i \in 1..8 |-> IF i = (e \div 8) + 1 THEN 2 ^ (e % 8) ELSE 0]

\* uint64_t values: the edge words, and the least and the greatest value of
\* every length of varint
VarintWords ==
    EdgeWords \cup {Pow2W(7 * k) : k \in 1..9}
              \cup {WAdd(Pow2W(7 * k), WNeg(WOf(1))) : k \in 1..9}

\* encode_varint(w, v) on an empty writer
Call_encode_varint ==
    /\ call = NoCall
    /\ \E v \in VarintWords :
          call' = [op |-> "encode_varint", v |-> v, bytes |-> encode_varint(v)]
    /\ UNCHANGED main

\* decode_varint(r) on a reader over the bytes just written and what
\* follows them
Call_decode_varint_written ==
    /\ call.op = "encode_varint"
    /\ \E rest \in {<<>>, <<129, 1>>} :
          call' = [op |-> "decode_varint_written", v |-> call.v, bytes |-> call.bytes,
                   res |-> decode_varint(call.bytes \o rest, 0)]
    /\ UNCHANGED main

CallInit == Init /\ mtype = "LongMessage" /\ flags = DefaultFlags

CallNext ==
    \/ Call_py_init
    \/ Call_encode_varint_signed
    \/ Call_decode_varint_signed
    \/ Call_decode_varint
    \/ Call_encode_varint
    \/ Call_decode_varint_written
    \/ Call_py_as_proto_data
    \/ Call_py_from_proto_data
    \/ Call_py_proto_copy
    \/ Call_py_delete_unknown_fields
    \/ Call_py_has_unknown_fields
    \/ Call_py_parse_proto_into_this
    \/ Call_skip
    \/ Call_subx
    \/ Call_getv

CallSpec == CallInit /\ [][CallNext]_vars

\* Sequences of calls on one message: it is reduced, and a message is made
\* by the free constructor and given the state; it is copied, and one of the
\* two is parsed into.
SeqNext ==
    \/ Call_py_init
    \/ Call_py_from_proto_data
    \/ Call_py_reduce
    \/ Call_py_free_constructor
    \/ Call_py_setstate
    \/ Seq_py_proto_copy
    \/ Call_py_parse_proto_into_copy

SeqSpec == CallInit /\ [][SeqNext]_vars

(***************************************************************************)
(* What the properties speak of                                            *)
(***************************************************************************)

\* the wire fields of the input of the last parse
NFr == Len(lastp.inp)
Fr(i) == Frags[mtype][lastp.inp[i]]
Parsed == lastp.op \in {"from", "into"}
Retains == HasFlag(flags, RETAIN_UNKNOWN_FIELDS)
Ignores == HasFlag(flags, IGNORE_INCORRECT_TYPES)

\* every tag the parser reads is the tag of a wire field of the input: no
\* wire field but the last is cut short
WellFramed == \A i \in 1..(NFr - 1) : Fr(i).cls # "trunc"

\* a wire field that is well formed for the schema, of a supported wire type
Plain(fr) == fr.cls \in {"value", "rep", "map", "unknown"} /\ ~fr.grp

\* a known field with a wire type it does not expect; supported: the
\* received wire type is VARINT, INT64, LENGTH or INT32
Mismatch(fr, supported) == fr.cls = "mismatch" /\ (supported => ~fr.grp)

\* a wire field as an unknown-field entry: the value of its tag, and its body
EntryOf(fr) ==
    [tag |-> decode_varint(fr.b, 0).val,
     body |-> SubSeq(fr.b, decode_varint(fr.b, 0).off + 1, Len(fr.b))]

\* the wire fields of the input that a parse with these flags retains
IsRetained(fr) == Retains /\ (fr.cls = "unknown" \/ (fr.cls = "mismatch" /\ Ignores))

RECURSIVE RetainedFrom(_)
RetainedFrom(i) ==
    IF i > NFr THEN <<>>
    ELSE (IF IsRetained(Fr(i)) THEN <<EntryOf(Fr(i))>> ELSE <<>>) \o RetainedFrom(i + 1)

RECURSIVE RetainedLen(_)
RetainedLen(i) ==
    IF i > NFr THEN 0
    ELSE (IF IsRetained(Fr(i)) THEN Len(Fr(i).b) ELSE 0) + RetainedLen(i + 1)

GroupsOf(t) == {Schema[t][i] : i \in 1..Len(Schema[t])}
Nums(g) == {g.fields[j].num : j \in 1..Len(g.fields)}

\* the wire fields of the input that carry a value for group g
Carrying(g) ==
    {i \in 1..NFr : Fr(i).num \in Nums(g) /\ Fr(i).cls \in {"value", "rep", "map"}}

\* the elements that the input's chunks of repeated group g carry, in order
RECURSIVE RepVals(_, _)
RepVals(g, i) ==
    IF i > NFr THEN <<>>
    ELSE (IF i \in Carrying(g) THEN Fr(i).vals ELSE <<>>) \o RepVals(g, i + 1)

\* the dict updated with the input's entries of map group g, in order
RECURSIVE MapUpdated(_, _, _)
MapUpdated(dict, g, i) ==
    IF i > NFr THEN dict
    ELSE IF i \in Carrying(g)
    THEN MapUpdated(PyDict_SetItem(dict, Fr(i).vals[1], Fr(i).vals[2]).val, g, i + 1)
    ELSE MapUpdated(dict, g, i + 1)

IsPrefix(s, t) == Len(s) <= Len(t) /\ SubSeq(t, 1, Len(s)) = s
LastBytes(s, n) == IF n >= Len(s) THEN s ELSE SubSeq(s, Len(s) - n + 1, Len(s))
Occurs(b, s) == \E k \in 0..(Len(s) - Len(b)) : SubSeq(s, k + 1, k + Len(b)) = b

\* the field numbers of the fields of a serialized message, top level
RECURSIVE FieldNums(_, _)
FieldNums(bytes, off) ==
    IF eof(bytes, off) THEN {}
    ELSE With(decode_varint(bytes, off), LAMBDA tag :
         IF tag.st # "ok" THEN {}
         ELSE With(skip_field(bytes, tag.off, wire_type_for_tag(tag.val)), LAMBDA sk :
              IF sk.st # "ok" \/ sk.off <= off THEN {}
              ELSE {field_num_for_tag(tag.val)} \cup FieldNums(bytes, sk.off)))

Emitted(num) == WOf(num) \in FieldNums(out.bytes, 0)

\* no retained unknown field of msg has this field number
NoUnknownWithNum(msg, num) ==
    \A i \in 1..Len(msg.v.unknown) : field_num_for_tag(msg.v.unknown[i].tag) # WOf(num)

\* obj is the default of field f's type; msg holds nothing but defaults
RECURSIVE TypeDefault(_, _)
RECURSIVE AllDefault(_)
TypeDefault(f, obj) ==
    CASE f.dt = "MESSAGE" -> obj.k = "msg" /\ AllDefault(obj)
      [] f.dt = "STRING" -> obj.k = "str" /\ obj.v = <<>>
      [] f.dt = "BYTES" -> obj.k = "bytes" /\ obj.v = <<>>
      [] f.dt = "ENUM" -> obj.k = "enum" /\ obj.v.n = 0
      [] f.dt = "BOOL" -> obj.k = "bool" /\ ~obj.v
      [] f.dt \in {"FLOAT", "DOUBLE"} ->
           obj.k = "float" /\ FloatIsZero(obj.v) /\ obj.rest = 0
      [] OTHER -> obj.k = "int" /\ obj.v.mag = W0

SlotDefault(g, obj) ==
    IF g.oneof THEN \E j \in 1..Len(g.fields) : TypeDefault(g.fields[j], obj)
    ELSE CASE g.fields[1].card = "OPTIONAL" -> obj.k = "none"
           [] g.fields[1].card = "REPEATED" -> obj.k = "list" /\ obj.v = <<>>
           [] g.fields[1].card = "MAP" -> obj.k = "dict" /\ obj.v = <<>>
           [] OTHER -> TypeDefault(g.fields[1], obj)

AllDefault(msg) ==
    /\ msg.v.unknown = <<>>
    /\ \A g \in GroupsOf(msg.v.type) : SlotDefault(g, msg.v.slots[g.name])

\* field j of group g is the one whose type the slot's value has
Holds(g, j, obj) ==
    /\ value_matches_type(g.fields[j].dt, obj, g.fields[j].enum, g.fields[j].sub, FALSE)
    /\ \A i \in 1..(j - 1) :
           ~value_matches_type(g.fields[i].dt, obj, g.fields[i].enum, g.fields[i].sub, FALSE)

(***************************************************************************)
(* Properties                                                              *)
(***************************************************************************)

\* C1: round trip.  A message built by the constructor from values valid
\* for its fields serializes, its bytes parse with the default flags, and the
\* message parsed compares equal to it.
RoundTrip ==
    lastp.op = "init" =>
        /\ out.st \in {"none", "ok"}
        /\ r.st \in {"none", "ok"}
        /\ r.st = "ok" => py_richcompare(r.val, m)

\* C2: canonical form stability.  The bytes a message serializes to parse
\* with the default flags, and the message parsed serializes to the same
\* bytes.
CanonicalForm ==
    /\ out.st = "ok" => r.st \in {"none", "ok"}
    /\ rout.st # "none" => rout = out

\* C3: unknown-field preservation.  After a parse that retains unknown
\* fields, the bytes of every wire field of the input whose field number is
\* not in the schema, tag bytes included, occur in the serialized message,
\* within its final portion that holds the retained fields.
UnknownVerbatim ==
    Parsed /\ lastp.st = "ok" /\ Retains /\ WellFramed /\ out.st = "ok"
           /\ lastp.before.v.unknown = <<>> =>
        \A i \in 1..NFr :
            Fr(i).cls = "unknown" =>
                Occurs(Fr(i).b, LastBytes(out.bytes, RetainedLen(1)))

\* C4: packed/unpacked interchange.  After a successful parse, a repeated
\* slot of a packable element type holds its previous elements followed by
\* the elements the input carries for it, in wire order, whether each chunk
\* is packed or unpacked.
PackedInterchange ==
    Parsed /\ lastp.st = "ok" /\ WellFramed =>
        \A g \in GroupsOf(mtype) :
            ~g.oneof /\ g.fields[1].card = "REPEATED"
                     /\ can_use_packed_repeated_format(g.fields[1].dt) =>
                PyEq(m.v.slots[g.name],
                     PyList(lastp.before.v.slots[g.name].v \o RepVals(g, 1)))

\* C4 happens: an input mixing a packed and an unpacked chunk of one
\* repeated field has been parsed
PackedInterchangeSeen ==
    /\ Parsed /\ lastp.st = "ok" /\ WellFramed
    /\ \E i, j \in 1..NFr :
          /\ Fr(i).cls = "rep" /\ Fr(j).cls = "rep" /\ Fr(i).num = Fr(j).num
          /\ Fr(i).b[1] % 8 = WT_LENGTH /\ Fr(j).b[1] % 8 # WT_LENGTH
          /\ \E g \in GroupsOf(mtype) :
                /\ Fr(i).num \in Nums(g)
                /\ can_use_packed_repeated_format(g.fields[1].dt)
                /\ Len(m.v.slots[g.name].v) >= 3

\* C5: default elision.  A message without unknown fields whose slots all
\* hold defaults serializes to no bytes, and a singular scalar field is among
\* the serialized fields iff the slot's value is not its type's default.
DefaultElision ==
    /\ out.st # "none" /\ AllDefault(m) => out.st = "ok" /\ out.bytes = <<>>
    /\ out.st = "ok" =>
          \A g \in GroupsOf(mtype) : \A j \in 1..Len(g.fields) :
              /\ g.fields[j].card = "SINGULAR" /\ g.fields[j].dt # "MESSAGE"
              /\ Holds(g, j, m.v.slots[g.name])
              /\ NoUnknownWithNum(m, g.fields[j].num)
              => (Emitted(g.fields[j].num) <=> ~TypeDefault(g.fields[j], m.v.slots[g.name]))

\* C5 happens: a message whose oneof slot holds the default of its second
\* candidate type, all else default, has been serialized
DefaultElisionSeen ==
    /\ mtype = "LongMessage" /\ lastp.op = "init" /\ out.st = "ok"
    /\ AllDefault(m) /\ m.v.slots.f_oneof.k = "str"

\* C6: optional presence.  An optional field is among the serialized fields
\* iff its slot is not None, and the message parsed back from the bytes has
\* the slot None iff it was None, with an equal value otherwise.
OptionalPresence ==
    \A g \in GroupsOf(mtype) :
        ~g.oneof /\ g.fields[1].card = "OPTIONAL" =>
            /\ out.st = "ok" /\ NoUnknownWithNum(m, g.fields[1].num) =>
                  (Emitted(g.fields[1].num) <=> m.v.slots[g.name].k # "none")
            /\ r.st = "ok" =>
                  /\ r.val.v.slots[g.name].k = "none" <=> m.v.slots[g.name].k = "none"
                  /\ PyEq(r.val.v.slots[g.name], m.v.slots[g.name])

\* C6 happens: an optional slot holding a present 0 has been serialized and
\* parsed back
OptionalPresenceSeen ==
    /\ mtype = "Optionals" /\ m.k = "msg" /\ r.st = "ok"
    /\ m.v.slots.f_maybe_int32.k = "int" /\ m.v.slots.f_maybe_int32.v.mag = W0
    /\ m.v.slots.f_maybe_sub.k = "none"

\* The rule for a known field that arrives with a wire type it does not
\* expect, the wire fields before it being well formed: without
\* IGNORE_INCORRECT_TYPES the parse fails with the type-mismatch error; with
\* it and RETAIN_UNKNOWN_FIELDS, the rest of the input being well formed or
\* mismatched too, the parse succeeds, the unknown fields grow by the
\* retained wire fields in order, each as its tag's value and its body, and
\* the slot is unchanged if no wire field carries a value for it.
\* supported: only received wire types VARINT, INT64, LENGTH and INT32 are
\* said to continue.
MismatchRule(supported) ==
    Parsed /\ WellFramed =>
        \A i \in 1..NFr :
            Fr(i).cls = "mismatch" /\ (\A j \in 1..(i - 1) : Plain(Fr(j))) =>
                /\ ~Ignores => lastp.st = "incorrect_type"
                /\ Ignores /\ Retains
                      /\ (\A j \in 1..NFr : Plain(Fr(j)) \/ Mismatch(Fr(j), supported)) =>
                      /\ lastp.st = "ok"
                      /\ m.k = "msg"
                      /\ m.v.unknown = lastp.before.v.unknown \o RetainedFrom(1)
                      /\ \A g \in GroupsOf(mtype) :
                             Fr(i).num \in Nums(g) /\ Carrying(g) = {} =>
                                 m.v.slots[g.name] = lastp.before.v.slots[g.name]

\* C7 as stated: a wire-type mismatch on a known field fails the parse
\* without IGNORE_INCORRECT_TYPES; with it the parse continues whatever the
\* received wire type, the slot unchanged and the field recorded as unknown.
MismatchAlwaysContinues == MismatchRule(FALSE)

\* C7: the same for the received wire types VARINT, INT64, LENGTH and INT32.
MismatchHandled == MismatchRule(TRUE)

\* C7 happens: a mismatched field has been retained by a parse that went on
MismatchRetainedSeen ==
    /\ Parsed /\ WellFramed /\ Ignores /\ Retains /\ lastp.st = "ok"
    /\ \E i \in 1..NFr : Fr(i).cls = "mismatch" /\ i < NFr
    /\ Len(m.v.unknown) > 0

\* C8: group wire types are always fatal.  A parse whose input holds a tag
\* of wire type 3, 4, 6 or 7 fails, whatever the field number and the flags,
\* and no unknown field with such a tag is ever recorded.
GroupAlwaysFatal ==
    /\ Parsed /\ WellFramed /\ (\E i \in 1..NFr : Fr(i).grp) => lastp.st # "ok"
    /\ m.k = "msg" =>
          \A i \in 1..Len(m.v.unknown) :
              wire_type_for_tag(m.v.unknown[i].tag) \in
                  {WT_VARINT, WT_INT64, WT_LENGTH, WT_INT32}

\* C9: a failed parse leaves no partial result.  After a failed
\* parse_proto_into_this the message is what it was before the call; a
\* failed from_proto_data returns no message.
FailedParseNoEffect ==
    /\ lastp.op = "into" /\ lastp.st # "ok" => m = lastp.before
    /\ lastp.op = "from" /\ lastp.st # "ok" => m = PyNone

\* C10: parse_proto_into_this merges.  After a successful call a slot no
\* wire field of the input has a number of is unchanged, a singular or
\* optional slot the input carries values for holds the last of them, a
\* repeated slot its previous elements followed by the input's, a map slot
\* its previous entries updated with the input's, and the unknown fields
\* retained before are still there, first.
MergeIntoSelf ==
    lastp.op = "into" /\ lastp.st = "ok" /\ WellFramed =>
        /\ IsPrefix(lastp.before.v.unknown, m.v.unknown)
        /\ \A g \in GroupsOf(mtype) :
               IF \A i \in 1..NFr : Fr(i).num \notin Nums(g)
               THEN m.v.slots[g.name] = lastp.before.v.slots[g.name]
               ELSE Carrying(g) # {} =>
                    PyEq(m.v.slots[g.name],
                         CASE g.oneof -> Fr(CHOOSE i \in Carrying(g) :
                                               \A j \in Carrying(g) : j <= i).vals[1]
                           [] g.fields[1].card = "REPEATED" ->
                                PyList(lastp.before.v.slots[g.name].v \o RepVals(g, 1))
                           [] g.fields[1].card = "MAP" ->
                                MapUpdated(lastp.before.v.slots[g.name], g, 1)
                           [] OTHER -> Fr(CHOOSE i \in Carrying(g) :
                                              \A j \in Carrying(g) : j <= i).vals[1])

\* C10 happens: a parse has added to a message built with a non-empty
\* repeated slot and another non-default slot
MergeSeen ==
    /\ lastp.op = "into" /\ lastp.st = "ok" /\ WellFramed
    /\ \E g \in GroupsOf(mtype) :
          /\ ~g.oneof /\ g.fields[1].card = "REPEATED"
          /\ Len(lastp.before.v.slots[g.name].v) > 0
          /\ Len(m.v.slots[g.name].v) > Len(lastp.before.v.slots[g.name].v)

\* C11: zigzag round trip.  For every n in the signed 32-bit range the value
\* that encode_varint_signed32 writes is below 2^32, and decode_varint_signed
\* over the bytes written returns n, having read them all; the same round
\* trip for every n in the signed 64-bit range with encode_varint_signed64.
ZigzagRoundTrip ==
    /\ call.op \in {"encode_varint_signed", "decode_varint_signed"}
          /\ call.width = 32 =>
          /\ decode_varint(call.bytes, 0).st = "ok"
          /\ is_in_u32_range(decode_varint(call.bytes, 0).val)
    /\ call.op = "decode_varint_signed" =>
          /\ call.res.st = "ok"
          /\ call.res.val = call.n
          /\ call.res.off = Len(call.bytes)

\* C11 happens: the least 32-bit value and the least 64-bit value have gone
\* round
ZigzagSeen ==
    /\ call.op = "decode_varint_signed"
    /\ \/ call.width = 32 /\ call.n = S32Min
       \/ call.width = 64 /\ call.n = WMinS64

\* C12: an over-long varint is rejected.  decode_varint fails with the
\* too-many-digits error on every input whose first ten bytes all have the
\* continuation bit; it never reads an eleventh byte, so that no 7-bit group
\* is accumulated at a shift above 63 (the k-th byte goes to shift 7(k-1));
\* and it accepts every varint of at most ten bytes whose last byte ends it.
VarintLengthLimit ==
    call.op = "decode_varint" =>
        /\ Len(call.data) >= 10 /\ (\A i \in 1..10 : call.data[i] >= 128) =>
              call.res.st = "varint_too_long"
        /\ call.res.off <= 10
        /\ /\ Len(call.data) \in 1..10
           /\ call.data[Len(call.data)] < 128
           /\ \A i \in 1..(Len(call.data) - 1) : call.data[i] >= 128
           => call.res.st = "ok" /\ call.res.off = Len(call.data)

\* C12 happens: FF FF FF FF FF FF FF FF FF FF 02 has been refused
VarintTooLongSeen ==
    /\ call.op = "decode_varint"
    /\ call.data = [i \in 1..11 |-> IF i <= 10 THEN 255 ELSE 2]
    /\ call.res.st = "varint_too_long"

\* the values a slot holds: the elements of a list, or the value itself
ValuesIn(obj) == IF obj.k = "list" THEN {obj.v[i] : i \in 1..Len(obj.v)} ELSE {obj}

\* the Python int x is in the range of the 32-bit integer type dt
InRange32(dt, x) ==
    IF dt \in {"UINT32", "FIXED32"} THEN ~x.v.neg /\ WLe(x.v.mag, U32Max)
    ELSE IF x.v.neg THEN WLe(x.v.mag, WAdd(S32Max, WOf(1)))
    ELSE WLe(x.v.mag, S32Max)

\* the errors of a value out of range: the range check's, or the
\* OverflowError of converting an int that no 64-bit integer holds
RangeErrors == {"range_error", "python_error"}

\* C13: range errors on serialize.  Serializing a message one of whose
\* INT32, SINT32 or SFIXED32 values is outside [-2^31, 2^31-1], or one of
\* whose UINT32 or FIXED32 values is outside [0, 2^32-1], fails with a range
\* error and returns no bytes; with every value in range it succeeds.
SerializeRange ==
    call.op = "as_proto_data" /\ call.self.v.type = "Ints32" =>
        IF \E g \in GroupsOf("Ints32") : \E x \in ValuesIn(call.self.v.slots[g.name]) :
               ~InRange32(g.fields[1].dt, x)
        THEN call.res.st \in RangeErrors /\ call.res.bytes = <<>>
        ELSE call.res.st = "ok"

\* C13 happens: 2^31 in a SINT32 slot has been refused by the range check
SerializeRangeSeen ==
    /\ call.op = "as_proto_data" /\ call.self.v.type = "Ints32"
    /\ call.self.v.slots.f_sint32 = PyIntW(FALSE, WAdd(S32Max, WOf(1)))
    /\ call.res.st = "range_error"

\* the enum has a member whose integer is the int64_t w
IsMember(enum, w) == \E n \in EnumMembers[enum] : SWord(n) = w

\* the enum values of a slot: the elements of a list, the values of a dict,
\* or the value itself
EnumValues(obj) ==
    CASE obj.k = "list" -> obj.v
      [] obj.k = "dict" -> [i \in 1..Len(obj.v) |-> obj.v[i].val]
      [] OTHER -> <<obj>>

\* C14: an unknown enum integer is an error.  A parse fails with the
\* no-such-member error when the input carries, for a singular, unpacked,
\* packed or map-value enum field, an integer that no member of the enum
\* has; otherwise it succeeds and the slot holds the members for the
\* integers carried, not the integers.  The two lookup tables are inverse to
\* each other.
UnknownEnumFails ==
    /\ call.op = "from_proto_data" /\ call.type = "Enums" =>
          IF \E i \in 1..Len(call.case.ints) : ~IsMember("MyEnum", call.case.ints[i])
          THEN call.res.st = "enum_member_does_not_exist" /\ call.res.val = PyNone
          ELSE /\ call.res.st = "ok"
               /\ LET vs == EnumValues(call.res.val.v.slots[call.case.g])
                  IN  /\ Len(vs) = Len(call.case.ints)
                      /\ \A i \in 1..Len(vs) :
                             /\ vs[i].k = "enum" /\ vs[i].v.e = "MyEnum"
                             /\ SWord(vs[i].v.n) = call.case.ints[i]
    /\ \A e \in DOMAIN EnumMembers :
          /\ \A n \in EnumMembers[e] :
                /\ py_member_for_value(e, SWord(n)).st = "ok"
                /\ value_for_py_member(e, py_member_for_value(e, SWord(n)).val) =
                       [st |-> "ok", val |-> SWord(n)]
          /\ \A w \in EdgeWords \cup {W3High} :
                py_member_for_value(e, w).st = "ok" =>
                    /\ has_py_member(e, py_member_for_value(e, w).val)
                    /\ value_for_py_member(e, py_member_for_value(e, w).val).val = w

\* C14 happens: a packed list whose second integer has no member has been
\* refused
UnknownEnumSeen ==
    /\ call.op = "from_proto_data" /\ call.type = "Enums"
    /\ call.case.b = <<18, 2, 3, 1>>
    /\ call.res.st = "enum_member_does_not_exist"

\* C15: proto_copy returns a new instance of self's type in which every
\* slot named in the keyword arguments holds the argument's value and every
\* other slot self's value; self's slots and unknown fields are what they
\* were before the call.
CopyWith ==
    call.op = "proto_copy" =>
        /\ call.res.k = "msg"
        /\ call.res.v.type = call.before.v.type
        /\ DOMAIN call.res.v.slots = GroupNames(call.before.v.type)
        /\ \A n \in GroupNames(call.before.v.type) :
               call.res.v.slots[n] = IF n \in DOMAIN call.kwargs THEN call.kwargs[n]
                                     ELSE call.before.v.slots[n]
        /\ call.self.v.slots = call.before.v.slots
        /\ call.self.v.unknown = call.before.v.unknown

\* C15 happens: a message with unknown fields and a non-default slot has been
\* copied with another slot overridden
CopyWithSeen ==
    /\ call.op = "proto_copy"
    /\ Len(call.before.v.unknown) > 0
    /\ \E n \in DOMAIN call.kwargs : call.res.v.slots[n] # call.before.v.slots[n]
    /\ \E n \in GroupNames(call.before.v.type) \ DOMAIN call.kwargs :
           call.res.v.slots[n] # new_with_default_values(call.before.v.type).v.slots[n]

\* C16: has_unknown_fields answers whether unknown_fields holds at least one
\* entry.  After delete_unknown_fields the message has no unknown field, its
\* serialization is the bytes of its field groups and nothing more, under
\* either iteration order, and every slot is the object it was.  A parse
\* without RETAIN_UNKNOWN_FIELDS, failed or not, leaves unknown_fields as it
\* found them.
UnknownFieldManagement ==
    /\ call.op = "has_unknown_fields" => (call.res <=> Len(call.self.v.unknown) >= 1)
    /\ call.op = "delete_unknown_fields" =>
          /\ ~py_has_unknown_fields(call.self)
          /\ call.self.v.slots = call.before.v.slots
          /\ \A pol \in Policies :
                as_proto_data(call.self.v.type, call.self, pol)
                    = serialize_groups(call.self.v.type, call.self, 1, pol)
    /\ (call.op = "parse_proto_into_this" /\ ~HasFlag(call.flags, RETAIN_UNKNOWN_FIELDS)) =>
          call.self.v.unknown = call.before.v.unknown

\* a message with an unknown field and a slot that is not its default has had
\* its unknown fields deleted
UnknownFieldsDeleted ==
    /\ call.op = "delete_unknown_fields"
    /\ Len(call.before.v.unknown) >= 1
    /\ call.before.v.slots # new_with_default_values(call.before.v.type).v.slots
    /\ as_proto_data(call.self.v.type, call.self, "insertion").st = "ok"
    /\ as_proto_data(call.self.v.type, call.self, "insertion").bytes # <<>>

\* the groups of the message type that are map fields
MapGroups == {g \in GroupsOf(mtype) : ~g.oneof /\ g.fields[1].card = "MAP"}

\* every float among the values of the dict equals a 32-bit float
Float32Values(dict) ==
    \A i \in 1..Len(dict.v) : dict.v[i].val.k = "float" => dict.v[i].val.rest = 0

\* the bodies of the top-level LENGTH fields numbered num of a serialized
\* message, in order
RECURSIVE EntryBodies(_, _, _)
EntryBodies(bytes, off, num) ==
    IF eof(bytes, off) THEN <<>>
    ELSE With(decode_varint(bytes, off), LAMBDA tag :
         IF tag.st # "ok" THEN <<>>
         ELSE With(skip_field(bytes, tag.off, wire_type_for_tag(tag.val)), LAMBDA sk :
              IF sk.st # "ok" \/ sk.off <= off THEN <<>>
              ELSE (IF field_num_for_tag(tag.val) = WOf(num)
                       /\ wire_type_for_tag(tag.val) = WT_LENGTH
                    THEN With(decode_varint(bytes, tag.off), LAMBDA len :
                             <<SubSeq(bytes, len.off + 1, sk.off)>>)
                    ELSE <<>>)
                   \o EntryBodies(bytes, sk.off, num)))

\* the tags of the fields of a map entry's body, in order
RECURSIVE EntryTags(_, _)
EntryTags(body, off) ==
    IF eof(body, off) THEN <<>>
    ELSE With(decode_varint(body, off), LAMBDA tag :
         IF tag.st # "ok" THEN <<>>
         ELSE With(skip_field(body, tag.off, wire_type_for_tag(tag.val)), LAMBDA sk :
              IF sk.st # "ok" \/ sk.off <= off THEN <<>>
              ELSE <<tag.val>> \o EntryTags(body, sk.off)))

\* every entry of the dict is on the wire as one LENGTH field whose body is
\* field 1 with the key's wire type, then field 2 with the value's
BothWritten(g, dict, bytes) ==
    LET bodies == EntryBodies(bytes, 0, g.fields[1].num)
    IN  /\ Len(bodies) = Len(dict.v)
        /\ \A i \in 1..Len(bodies) :
               EntryTags(bodies[i], 0)
                   = <<encode_tag(1, wire_type_for_data_type(g.fields[1].kt)),
                       encode_tag(2, wire_type_for_data_type(g.fields[1].vt))>>

\* the dict holds, for the key of every entry the input carries for map group
\* g, one entry, whose value is that of the last entry carried with that key
LastWins(g, dict) ==
    \A i \in Carrying(g) :
        LET last == CHOOSE j \in Carrying(g) :
                        /\ PyEq(Fr(j).vals[1], Fr(i).vals[1])
                        /\ \A k \in Carrying(g) :
                               PyEq(Fr(k).vals[1], Fr(i).vals[1]) => k <= j
            at == {e \in 1..Len(dict.v) : PyEq(dict.v[e].key, Fr(i).vals[1])}
        IN  /\ Cardinality(at) = 1
            /\ \A e \in at : PyEq(dict.v[e].val, Fr(last).vals[2])

WireTypes == 0..7

\* C18: parse termination.  No parse goes on for ever, and wherever in the
\* data of a parse call skip_field is called and returns, it leaves the
\* reader's offset greater than it was.
ParseTerminates ==
    /\ call.op = "from_proto_data" => call.res.st # "diverges"
    /\ call.op = "parse_proto_into_this" => call.st # "diverges"
    /\ call.op \in {"from_proto_data", "parse_proto_into_this"} =>
          \A off \in 0..(Len(call.data) - 1) : \A type \in WireTypes :
              skip_field(call.data, off, type).st = "ok" =>
                  skip_field(call.data, off, type).off > off

\* C19: reader bounds.  skip, subx and getv (pgetv) on a reader over n bytes
\* at offset o with a 64-bit size either fail or stay within the data: a
\* call that returns leaves the offset in 0..n and covers only bytes of the
\* data, and a size larger than the n - o bytes remaining is a failure.  No
\* parse hands out bytes that are not in its input.
ReaderBounds ==
    /\ call.op \in {"skip", "subx", "getv"} =>
          /\ WLt(WOf(Len(call.data) - call.offset), call.size) =>
                call.res.st = "out_of_range"
          /\ call.res.st \in {"ok", "out_of_range"}
          /\ call.op # "subx" => call.res.off \in 0..Len(call.data)
          /\ call.op # "skip" /\ call.res.st = "ok" =>
                call.res.val = SubSeq(call.data, call.offset + 1,
                                      call.offset + WToNat(call.size))
    /\ call.op = "from_proto_data" => call.res.st # "ub"
    /\ call.op = "parse_proto_into_this" => call.st # "ub"

\* C20: parsed 32-bit values are in range.  After a successful parse every
\* INT32 and SINT32 value of the message is in [-2^31, 2^31-1] and every
\* UINT32 value in [0, 2^32-1]; a UINT32 field carrying a varint above
\* 2^32-1 makes the parse fail; an INT32 field holds the low 32 bits of its
\* varint, sign-extended.
Parsed32InRange ==
    call.op = "from_proto_data" /\ call.type = "Ints32" =>
        /\ call.res.st = "ok" =>
              \A g \in GroupsOf("Ints32") :
                  g.fields[1].dt \in {"INT32", "UINT32", "SINT32"} =>
                      \A x \in ValuesIn(call.res.val.v.slots[g.name]) :
                          InRange32(g.fields[1].dt, x)
        /\ (/\ call.case.g \in {"f_uint32", "f_uint32s"}
            /\ \E i \in 1..Len(call.case.ints) : WLt(U32Max, call.case.ints[i]))
              => call.res.st # "ok"
        /\ call.case.g = "f_int32" =>
              /\ call.res.st = "ok"
              /\ call.res.val.v.slots.f_int32
                     = PyLong_FromLongLong(WSext32(call.case.ints[1]))

\* C21: optional oneof group.  A message whose oneof group of optional
\* fields holds None serializes, and none of the group's fields is among the
\* bytes.
OptionalOneofSkipped ==
    /\ call.op = "as_proto_data"
    /\ call.self.v.type = "Oneofs"
    /\ call.self.v.slots.f_opt = PyNone
    => /\ call.res.st = "ok"
       /\ FieldNums(call.res.bytes, 0) \cap {WOf(1), WOf(2)} = {}


\* the oneof groups of a message type; the candidates of g that accept obj;
\* the tags of the top-level fields of the bytes that carry one of g's field
\* numbers, in order
OneofGroups(t) == {g \in GroupsOf(t) : g.oneof}
Accepting(g, obj) ==
    {j \in 1..Len(g.fields) :
        value_matches_type(g.fields[j].dt, obj, g.fields[j].enum, g.fields[j].sub, FALSE)}
GroupTags(g, bytes) ==
    SelectSeq(EntryTags(bytes, 0),
              LAMBDA tag : field_num_for_tag(tag) \in {WOf(n) : n \in Nums(g)})
\* the oneof groups of msg none of whose field numbers a retained unknown
\* field of msg has
OwnOneofs(msg) ==
    {g \in OneofGroups(msg.v.type) : \A n \in Nums(g) : NoUnknownWithNum(msg, n)}
TagOf(f) == encode_tag(f.num, wire_type_for_data_type(f.dt))

\* the serializer's result res for group g holding obj: an error when no
\* candidate accepts obj; bytes that carry, of the group's fields, only the
\* first accepting candidate under its number and wire type, and not even
\* that one when it is elided
Dispatched(g, obj, res, Elided(_)) ==
    /\ Accepting(g, obj) = {} => res.st # "ok"
    /\ res.st = "ok" =>
           LET f == g.fields[CHOOSE j \in Accepting(g, obj) :
                                 \A i \in Accepting(g, obj) : j <= i]
           IN  GroupTags(g, res.bytes) = IF Elided(f) THEN <<>> ELSE <<TagOf(f)>>

LastCarrying(g) == CHOOSE i \in Carrying(g) : \A j \in Carrying(g) : j <= i

\* C23: duplicate field numbers on parse.  After a successful parse of an
\* input in which two wire fields carry a value for the same group, a
\* singular or optional slot, and a oneof slot whichever members the wire
\* fields belong to, holds the value of the last of them in wire order, and a
\* repeated slot holds what it held before followed by the elements of all of
\* them in wire order.
DuplicateFields ==
    Parsed /\ lastp.st = "ok" /\ WellFramed =>
        \A g \in GroupsOf(mtype) :
            Cardinality(Carrying(g)) >= 2 =>
                CASE g.oneof -> PyEq(m.v.slots[g.name], Fr(LastCarrying(g)).vals[1])
                  [] g.fields[1].card = "REPEATED" ->
                       m.v.slots[g.name] =
                           PyList(lastp.before.v.slots[g.name].v \o RepVals(g, 1))
                  [] g.fields[1].card = "MAP" -> TRUE
                  [] OTHER -> PyEq(m.v.slots[g.name], Fr(LastCarrying(g)).vals[1])

\* C23 happens: an input of two different chunks of a repeated field was
\* parsed into a new message, whose list holds the elements of the first
\* chunk and then those of the second
DuplicatesSeen ==
    /\ lastp.op = "from" /\ lastp.st = "ok" /\ NFr = 2
    /\ \E g \in GroupsOf(mtype) :
          /\ ~g.oneof /\ g.fields[1].card = "REPEATED"
          /\ Carrying(g) = {1, 2}
          /\ Fr(1).b # Fr(2).b
          /\ m.v.slots[g.name] = PyList(Fr(1).vals \o Fr(2).vals)


\* the orders in which n entries can be written: p[k] is the entry written
\* k-th
Orders(n) == {p \in [1..n -> 1..n] : \A i, j \in 1..n : i # j => p[i] # p[j]}

\* the order p writes the entries that share a tag in the order in which
\* they were parsed
KeepsParsedOrder(p, unknown) ==
    \A i, j \in 1..Len(unknown) :
        i < j /\ unknown[p[i]].tag = unknown[p[j]].tag => p[i] < p[j]

\* the fields of the bytes belong to the groups of type t in declaration order
DeclarationOrder(t, bytes) ==
    LET tags == EntryTags(bytes, 0)
        grp(k) == CHOOSE i \in 1..Len(Schema[t]) :
                      field_num_for_tag(tags[k]) \in {WOf(n) : n \in Nums(Schema[t][i])}
    IN  \A k \in 1..(Len(tags) - 1) : grp(k) <= grp(k + 1)

\* C24: serialized order.  The bytes of a successful as_proto_data are the
\* known field groups in declaration order, followed by every retained
\* unknown-field entry, the entries that share a tag in the order in which
\* they were parsed.
SerializedOrder ==
    call.op = "as_proto_data" /\ call.res.st = "ok" =>
        LET msg == call.self
            known == serialize_groups(msg.v.type, msg, 1, "insertion").bytes
        IN  /\ DeclarationOrder(msg.v.type, known)
            /\ \E p \in Orders(Len(msg.v.unknown)) :
                  /\ KeepsParsedOrder(p, msg.v.unknown)
                  /\ call.res.bytes =
                         known \o serialize_unknown(
                                     [k \in 1..Len(msg.v.unknown) |-> msg.v.unknown[p[k]]], 1)


\* C25: map entry parse.  The parse of one occurrence of a map field, with
\* or without a field other than 1 and 2 in the entry, succeeds and puts
\* exactly one entry into the mapping: its key is what field 1 of the entry
\* carries and its value what field 2 carries, the type's default for a
\* field the entry lacks, the other field being skipped whole.
MapEntryParse ==
    call.op = "from_proto_data" =>
        \A e \in MapEntries :
            call.case.b = e.b =>
                /\ call.res.st = "ok"
                /\ call.res.val.v.slots.f_map_str_float =
                       PyDict(<<[key |-> e.key, val |-> e.val]>>)


\* C26: varint round trip.  For every uint64_t v, encode_varint writes from
\* 1 to 10 bytes, the single byte 0 for v = 0, the continuation bit being set
\* in every byte but the last, and decode_varint on a reader over those
\* bytes, whatever follows them, returns v and leaves the reader right after
\* them.
VarintRoundTrip ==
    /\ call.op \in {"encode_varint", "decode_varint_written"} =>
          /\ Len(call.bytes) \in 1..10
          /\ call.v = W0 => call.bytes = <<0>>
          /\ \A i \in 1..Len(call.bytes) : call.bytes[i] >= 128 <=> i < Len(call.bytes)
    /\ call.op = "decode_varint_written" =>
          /\ call.res.st = "ok"
          /\ call.res.val = call.v
          /\ call.res.off = Len(call.bytes)

\* C26 happens: 2^64 - 1 was written as 10 bytes and read back
VarintRoundTripSeen ==
    /\ call.op = "decode_varint_written"
    /\ call.v = U64Max
    /\ Len(call.bytes) = 10
    /\ call.res.off = 10


\* the bytes of the input's wire fields i to j
RECURSIVE BytesOf(_, _)
BytesOf(i, j) == IF i > j THEN <<>> ELSE Fr(i).b \o BytesOf(i + 1, j)

\* C27: concatenation is merge.  When from_proto_data was given b1 followed
\* by b2, each of which parses successfully by itself with the same flags, it
\* succeeded, and its message has the slots and the unknown fields of a
\* default instance into which b1 and then b2 were parsed.
ConcatenationIsMerge ==
    lastp.op = "from" =>
        \A k \in 1..(NFr - 1) :
            LET b1 == BytesOf(1, k)
                b2 == BytesOf(k + 1, NFr)
                m1 == parse_proto_into_this(new_with_default_values(mtype), b1, flags)
                m2 == parse_proto_into_this(m1.msg, b2, flags)
            IN  m1.st = "ok" /\ from_proto_data(mtype, b2, flags).st = "ok" =>
                    /\ lastp.st = "ok"
                    /\ m2.st = "ok"
                    /\ m.v.slots = m2.msg.v.slots
                    /\ m.v.unknown = m2.msg.v.unknown

\* C27 happens: an input of a retained unknown field followed by a known
\* field, each a complete input by itself, was parsed
ConcatenationSeen ==
    /\ lastp.op = "from" /\ lastp.st = "ok" /\ NFr = 2 /\ Retains
    /\ Fr(1).cls = "unknown" /\ Fr(2).cls \in {"value", "rep", "map"}
    /\ from_proto_data(mtype, Fr(1).b, flags).st = "ok"
    /\ from_proto_data(mtype, Fr(2).b, flags).st = "ok"
    /\ Len(m.v.unknown) = 1


\* C28: persist and restore.  The message r that the free constructor makes
\* and __setstate__ fills from the state that m.__reduce__() gave compares
\* equal to m and serializes to the bytes m serialized to, also when m holds
\* retained unknown fields.
PersistRestore ==
    call.op = "setstate" =>
        /\ call.st = "ok"
        /\ py_richcompare(call.r, call.self)
        /\ \E pol \in Policies :
              as_proto_data(call.r.v.type, call.r, pol) = SOk(call.state)


\* C29: a copy serializes identically.  The message that proto_copy returns
\* when it is given no keyword argument serializes as the message copied
\* does, and has unknown fields exactly if that message has.
CopySerializesIdentically ==
    call.op = "proto_copy" /\ DOMAIN call.kwargs = {} =>
        /\ \A pol \in Policies :
              as_proto_data(call.res.v.type, call.res, pol) =
                  as_proto_data(call.self.v.type, call.self, pol)
        /\ py_has_unknown_fields(call.res) = py_has_unknown_fields(call.self)


\* C30: copy independence.  After c = m.proto_copy(...) with no keyword
\* argument for a repeated or map group, a parse into c leaves m's slot for
\* that group as it was, and a parse into m leaves c's slot as it was.
CopyIndependence ==
    call.op = "parse_proto_into_copy" =>
        \A g \in GroupsOf(call.other.v.type) :
            /\ ~g.oneof /\ g.fields[1].card \in {"REPEATED", "MAP"}
            /\ g.name \notin DOMAIN call.kwargs
            => call.other.v.slots[g.name] = call.before.v.slots[g.name]

=========================================================================
